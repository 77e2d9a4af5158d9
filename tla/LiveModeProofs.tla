--------------------------- MODULE LiveModeProofs ---------------------------
(***************************************************************************)
(* Live mode for any number of frames and viewers and any window: types,   *)
(* order and at-most-once delivery (the refinement of LiveStream), that no *)
(* viewer reads a gap, and that frames are lost on a leaving viewer only.  *)
(***************************************************************************)
EXTENDS LiveMode, SequenceTheorems, TLAPS

USE LiveAssumption DEF Hello, None, Conns, Messages

LEMMA HeadAndTail ==
  ASSUME NEW S, NEW s \in Seq(S), s # << >>
  PROVE  /\ Len(s) \in Nat /\ Len(s) >= 1 /\ DOMAIN s = 1 .. Len(s)
         /\ Head(s) = s[1] /\ \A i \in 1 .. Len(s) : s[i] \in S
         /\ DOMAIN Tail(s) = 1 .. Len(s) - 1
         /\ \A i \in 1 .. Len(s) - 1 : Tail(s)[i] = s[i + 1]
OBVIOUS

LEMMA InitType == Init => TypeOK
BY DEF Init, TypeOK

LEMMA SentType ==
  ASSUME TypeOK, NEW c \in Conns, NEW message \in Messages
  PROVE  Sent(c, message) \in [Conns -> Seq(Messages)]
<1>1. wire[c] \in Seq(Messages) /\ wire \in [Conns -> Seq(Messages)]
  BY DEF TypeOK
<1>2. Append(wire[c], message) \in Seq(Messages)
  BY <1>1
<1>3. QED
  BY <1>1, <1>2 DEF Sent

LEMMA StepType == TypeOK /\ [Next]_vars => TypeOK'
<1> SUFFICES ASSUME TypeOK, [Next]_vars PROVE TypeOK'
  OBVIOUS
<1> USE DEF TypeOK, gameVars, serverVars, viewerVars
<1>1. CASE SendFrame
  BY <1>1 DEF SendFrame
<1>2. CASE DropServer
  BY <1>2 DEF DropServer
<1>3. CASE Accept
  <2>1. Head(backlog) \in Conns /\ Tail(backlog) \in Seq(Conns)
    BY SMTT(20), <1>3 DEF Accept
  <2>2. QED
    BY SMTT(20), <1>3, <2>1 DEF Accept
<1>4. CASE Greet
  <2>1. current \in Conns
    BY <1>4 DEF Greet
  <2>2. wire' \in [Conns -> Seq(Messages)]
    <3>1. Hello \in Messages
      OBVIOUS
    <3>2. Sent(current, Hello) \in [Conns -> Seq(Messages)]
      BY <2>1, <3>1, SentType
    <3>3. wire' = Sent(current, Hello) \/ wire' = wire
      BY <1>4 DEF Greet
    <3>4. QED
      BY <3>2, <3>3
  <2>3. QED
    BY <1>4, <2>1, <2>2 DEF Greet
<1>5. CASE Stream
  <2>1. current \in Conns
    BY <1>5 DEF Stream
  <2>2. Head(channel) \in Messages /\ Tail(channel) \in Seq(Messages)
    BY <1>5 DEF Stream
  <2>3. wire' \in [Conns -> Seq(Messages)]
    <3>1. Sent(current, Head(channel)) \in [Conns -> Seq(Messages)]
      BY <2>1, <2>2, SentType
    <3>2. wire' = Sent(current, Head(channel)) \/ wire' = wire
      BY <1>5 DEF Stream
    <3>3. QED
      BY <3>1, <3>2
  <2>4. QED
    BY <1>5, <2>1, <2>2, <2>3 DEF Stream
<1>6. CASE Exit
  BY <1>6 DEF Exit
<1>7. CASE Connect
  BY <1>7 DEF Connect
<1>8. ASSUME NEW c \in Conns, Ask(c) PROVE TypeOK'
  BY <1>8 DEF Ask
<1>9. ASSUME NEW c \in Conns, Read(c) PROVE TypeOK'
  <2>1. Head(wire[c]) \in Messages /\ Tail(wire[c]) \in Seq(Messages)
    BY SMTT(20), <1>9 DEF Read
  <2>2. seen' \in [Conns -> Seq(Messages)] /\ wire' \in [Conns -> Seq(Messages)]
    BY SMTT(20), <1>9, <2>1 DEF Read
  <2>3. QED
    BY <1>9, <2>1, <2>2 DEF Read
<1>10. ASSUME NEW c \in Conns, Leave(c) PROVE TypeOK'
  BY <1>10 DEF Leave
<1>11. CASE UNCHANGED vars
  BY <1>11 DEF vars
<1>12. QED
  BY <1>1, <1>2, <1>3, <1>4, <1>5, <1>6, <1>7, <1>8, <1>9, <1>10, <1>11 DEF Next

\* Every variable keeps its type, whoever connects, leaves or drops.
THEOREM TypeCorrect == Spec => []TypeOK
BY InitType, StepType, PTL DEF Spec

----------------------------------------------------------------------------
(* Order and at-most-once *)

\* The channel holds the frames sent last, in order; Taken is the last frame
\* the thread has taken from it.
Taken == sent - Len(channel)
ChannelIsLatest ==
  /\ Len(channel) <= sent
  /\ \A i \in DOMAIN channel : channel[i] = Taken + i

\* Only one connection has something under way: the current one while the
\* thread streams, the last one after it has ended, and none whose viewer left.
OneWire ==
  /\ \A c, d \in Conns : wire[c] # << >> /\ wire[d] # << >> => c = d
  /\ thread \in {"accept", "greet"} => \A c \in Conns : wire[c] = << >>
  /\ thread = "stream" => \A c \in Conns : c # current => wire[c] = << >>
  /\ \A c \in Conns : viewer[c] = "gone" => wire[c] = << >>

\* What is under way is hello or newer than anything read, and in order.
WireIsAhead ==
  /\ shown <= Taken
  /\ \A c \in Conns :
       /\ \A i \in DOMAIN wire[c] :
            /\ wire[c][i] = Hello \/ shown < wire[c][i]
            /\ wire[c][i] <= Taken
       /\ \A i, j \in DOMAIN wire[c] : i < j => wire[c][i] < wire[c][j]

IInv == TypeOK /\ ChannelIsLatest /\ OneWire /\ WireIsAhead

LEMMA InitIInv == Init => IInv
<1> SUFFICES ASSUME Init PROVE IInv
  OBVIOUS
<1>1. TypeOK
  BY InitType
<1>2. /\ sent = 0 /\ shown = 0 /\ Len(channel) = 0 /\ DOMAIN channel = {}
      /\ \A c \in Conns : wire[c] = << >> /\ DOMAIN wire[c] = {}
  BY DEF Init
<1>3. QED
  BY <1>1, <1>2 DEF IInv, ChannelIsLatest, OneWire, WireIsAhead, Taken

\* A step that moves nothing between the channel, the wires and the viewers.
LEMMA QuietStep ==
  ASSUME IInv, TypeOK', UNCHANGED <<sent, channel, wire, shown>>,
         thread' = thread \/ thread' = "exited"
                          \/ (thread \in {"accept", "greet"} /\ thread' \in {"accept", "greet"}),
         thread' = "stream" => current' = current,
         \A c \in Conns : viewer'[c] = "gone" => viewer[c] = "gone"
  PROVE  IInv'
BY DEF IInv, ChannelIsLatest, OneWire, WireIsAhead, Taken

\* A message sent to a connection on which nothing newer is under way.
LEMMA SentKeepsOrder ==
  ASSUME IInv, NEW c \in Conns, NEW m \in Messages,
         \A d \in Conns : d # c => wire[d] = << >>,
         \A i \in DOMAIN wire[c] : wire[c][i] < m,
         wire' = Sent(c, m)
  PROVE  /\ \A d \in Conns : d # c => wire'[d] = << >>
         /\ \A d \in Conns :
              /\ \A i \in DOMAIN wire'[d] : wire'[d][i] = m \/
                    (i \in DOMAIN wire[d] /\ wire'[d][i] = wire[d][i])
              /\ \A i, j \in DOMAIN wire'[d] : i < j => wire'[d][i] < wire'[d][j]
<1>1. wire \in [Conns -> Seq(Messages)] /\ wire[c] \in Seq(Messages)
  BY DEF IInv, TypeOK
<1>2. CASE viewer[c] = "gone"
  BY <1>2 DEF Sent, IInv, WireIsAhead
<1>3. CASE viewer[c] # "gone"
  <2>1. /\ wire'[c] = Append(wire[c], m)
        /\ \A d \in Conns : d # c => wire'[d] = wire[d]
    BY <1>1, <1>3 DEF Sent
  <2>2. /\ DOMAIN wire[c] = 1 .. Len(wire[c]) /\ Len(wire[c]) \in Nat
        /\ DOMAIN wire'[c] = 1 .. Len(wire[c]) + 1
        /\ \A i \in 1 .. Len(wire[c]) : wire'[c][i] = wire[c][i]
        /\ wire'[c][Len(wire[c]) + 1] = m
    BY <1>1, <2>1
  <2>3. \A i, j \in DOMAIN wire'[c] : i < j => wire'[c][i] < wire'[c][j]
    <3>1. \A i, j \in 1 .. Len(wire[c]) : i < j => wire[c][i] < wire[c][j]
      <4>1. \A i, j \in DOMAIN wire[c] : i < j => wire[c][i] < wire[c][j]
        BY Zenon DEF IInv, WireIsAhead
      <4>2. QED
        BY ONLY <2>2, <4>1
    <3>2. \A i \in 1 .. Len(wire[c]) : wire[c][i] < m
      BY ONLY <2>2, \A i \in DOMAIN wire[c] : wire[c][i] < m
    <3>3. SUFFICES ASSUME NEW i \in 1 .. Len(wire[c]) + 1,
                          NEW j \in 1 .. Len(wire[c]) + 1, i < j
                   PROVE  wire'[c][i] < wire'[c][j]
      BY ONLY <2>2, <3>3
    <3>4. i \in 1 .. Len(wire[c]) /\ (j \in 1 .. Len(wire[c]) \/ j = Len(wire[c]) + 1)
      BY ONLY <2>2, <3>3
    <3>5. CASE j \in 1 .. Len(wire[c])
      BY ONLY <2>2, <3>1, <3>3, <3>4, <3>5
    <3>6. CASE j = Len(wire[c]) + 1
      BY ONLY <2>2, <3>2, <3>4, <3>6
    <3>7. QED
      BY ONLY <3>4, <3>5, <3>6
  <2>4. \A i \in DOMAIN wire'[c] : wire'[c][i] = m \/
           (i \in DOMAIN wire[c] /\ wire'[c][i] = wire[c][i])
    <3>1. \A i \in DOMAIN wire'[c] : i \in 1 .. Len(wire[c]) \/ i = Len(wire[c]) + 1
      BY <2>2
    <3>2. QED
      BY <2>2, <3>1
  <2>5. \A d \in Conns : d # c => wire'[d] = << >> /\ DOMAIN wire'[d] = {}
    BY <2>1
  <2>6. QED
    BY <2>3, <2>4, <2>5
<1>4. QED
  BY <1>2, <1>3

LEMMA StepIInv == IInv /\ [Next]_vars => IInv'
<1> SUFFICES ASSUME IInv, [Next]_vars PROVE IInv'
  OBVIOUS
<1>1. TypeOK /\ TypeOK'
  BY StepType DEF IInv
<1>2. /\ channel \in Seq(Messages) /\ Len(channel) \in Nat /\ sent \in Nat
      /\ shown \in Nat /\ DOMAIN channel = 1 .. Len(channel)
      /\ wire \in [Conns -> Seq(Messages)]
  <2>1. /\ channel \in Seq(Messages) /\ sent \in Nat /\ shown \in Nat
        /\ wire \in [Conns -> Seq(Messages)]
    BY <1>1 DEF TypeOK
  <2>2. Len(channel) \in Nat /\ DOMAIN channel = 1 .. Len(channel)
    BY <2>1
  <2>3. QED
    BY <2>1, <2>2
<1>3. CASE SendFrame
  <2>1. /\ sent' = sent + 1 /\ channel' = Append(channel, sent + 1)
        /\ UNCHANGED <<thread, current, wire, viewer, shown>>
    BY <1>3 DEF SendFrame, serverVars, viewerVars
  <2>2. /\ Len(channel') = Len(channel) + 1
        /\ DOMAIN channel' = 1 .. Len(channel) + 1
        /\ \A i \in 1 .. Len(channel) : channel'[i] = channel[i]
        /\ channel'[Len(channel) + 1] = sent + 1
    BY <1>2, <2>1
  <2>3. Taken' = Taken
    BY <1>2, <2>1, <2>2 DEF Taken
  <2>4. ChannelIsLatest'
    BY <1>2, <2>1, <2>2, <2>3 DEF IInv, ChannelIsLatest, Taken
  <2>5. OneWire' /\ WireIsAhead'
    BY <2>1, <2>3 DEF IInv, OneWire, WireIsAhead
  <2>6. QED
    BY <1>1, <2>4, <2>5 DEF IInv
<1>4. CASE DropServer
  BY <1>1, <1>4, QuietStep DEF DropServer, serverVars, viewerVars
<1>5. CASE Accept
  BY <1>1, <1>5, QuietStep DEF Accept, gameVars, viewerVars
<1>6. CASE Greet
  <2>1. /\ thread = "greet" /\ current \in Conns
        /\ UNCHANGED <<sent, channel, shown, viewer>>
        /\ \A c \in Conns : wire[c] = << >> /\ DOMAIN wire[c] = {}
    <3>1. thread = "greet" /\ UNCHANGED <<sent, channel, shown, viewer>>
      BY <1>6 DEF Greet, gameVars, viewerVars
    <3>2. current \in Conns
      BY <1>1, <3>1 DEF TypeOK
    <3>3. \A c \in Conns : wire[c] = << >>
      BY <3>1 DEF IInv, OneWire
    <3>4. QED
      BY <3>1, <3>2, <3>3
  <2>2. CASE thread' = "accept" /\ UNCHANGED wire
    BY <1>1, <2>1, <2>2, QuietStep
  <2>3. CASE thread' = "stream" /\ current' = current /\ wire' = Sent(current, Hello)
    <3>1. Hello \in Messages
      BY LiveAssumption DEF Hello, Messages
    <3>2. /\ \A d \in Conns : d # current => wire'[d] = << >>
          /\ \A d \in Conns :
               /\ \A i \in DOMAIN wire'[d] : wire'[d][i] = Hello
               /\ \A i, j \in DOMAIN wire'[d] : i < j => wire'[d][i] < wire'[d][j]
      BY <2>1, <2>3, <3>1, SentKeepsOrder
    <3>3. Taken' = Taken /\ Taken \in Nat
      BY <1>2, <2>1 DEF Taken, IInv, ChannelIsLatest
    <3>4. ChannelIsLatest'
      BY <2>1, <3>3 DEF IInv, ChannelIsLatest
    <3>5. OneWire'
      BY <2>1, <2>3, <3>2 DEF OneWire, Sent
    <3>6. WireIsAhead'
      BY <2>1, <3>2, <3>3 DEF IInv, WireIsAhead, Hello
    <3>7. QED
      BY <1>1, <3>4, <3>5, <3>6 DEF IInv
  <2>4. QED
    BY <1>6, <2>2, <2>3 DEF Greet
<1>7. CASE Stream
  <2>1. /\ thread = "stream" /\ current \in Conns /\ channel # << >>
        /\ channel' = Tail(channel) /\ UNCHANGED <<sent, shown, viewer>>
        /\ \A c \in Conns : c # current => wire[c] = << >>
    BY <1>1, <1>7 DEF Stream, gameVars, viewerVars, TypeOK, IInv, OneWire
  <2> DEFINE f == Head(channel)
  <2>2. /\ Len(channel) >= 1 /\ f = channel[1] /\ f \in Messages
        /\ Len(channel') = Len(channel) - 1
        /\ DOMAIN channel' = 1 .. Len(channel) - 1
        /\ \A i \in 1 .. Len(channel) - 1 : channel'[i] = channel[i + 1]
    BY <1>2, <2>1
  <2>3. Taken' = Taken + 1 /\ f = Taken + 1 /\ Taken \in Nat
    <3>1. Len(channel) <= sent /\ channel[1] = Taken + 1
      BY SMTT(20), <1>2, <2>2 DEF IInv, ChannelIsLatest
    <3>2. QED
      BY <1>2, <2>1, <2>2, <3>1 DEF Taken
  <2>4. ChannelIsLatest'
    <3>1. \A i \in 1 .. Len(channel) - 1 : channel[i + 1] = Taken + (i + 1)
      BY <1>2 DEF IInv, ChannelIsLatest
    <3>2. Len(channel') <= sent'
      BY <1>2, <2>1, <2>2 DEF IInv, ChannelIsLatest
    <3>3. \A i \in 1 .. Len(channel) - 1 : channel'[i] = Taken' + i
      <4>1. TAKE i \in 1 .. Len(channel) - 1
      <4>2. channel'[i] = Taken + (i + 1)
        BY <2>2, <3>1
      <4>3. QED
        BY <1>2, <2>3, <4>2
    <3>4. QED
      BY <2>2, <3>2, <3>3 DEF ChannelIsLatest
  <2> HIDE DEF f
  <2>5. \A i \in DOMAIN wire[current] : wire[current][i] \in Nat /\ wire[current][i] < f
    <3>1. \A i \in DOMAIN wire[current] : wire[current][i] \in Messages
      BY <1>2, <2>1
    <3>2. QED
      BY <2>1, <2>3, <3>1 DEF IInv, WireIsAhead, Messages
  <2>6. CASE wire' = Sent(current, f) /\ UNCHANGED <<thread, current>>
    <3>1. /\ \A d \in Conns : d # current => wire'[d] = << >>
          /\ \A d \in Conns :
               /\ \A i \in DOMAIN wire'[d] : wire'[d][i] = f \/
                     (i \in DOMAIN wire[d] /\ wire'[d][i] = wire[d][i])
               /\ \A i, j \in DOMAIN wire'[d] : i < j => wire'[d][i] < wire'[d][j]
      BY <2>1, <2>2, <2>5, <2>6, SentKeepsOrder
    <3>2. OneWire'
      BY <2>1, <2>6, <3>1 DEF IInv, OneWire, Sent
    <3>3. \A d \in Conns : \A i \in DOMAIN wire[d] : wire[d][i] \in Messages
      BY <1>2
    <3>4. ASSUME NEW d \in Conns, NEW i \in DOMAIN wire'[d]
          PROVE  /\ wire'[d][i] = Hello \/ shown' < wire'[d][i]
                 /\ wire'[d][i] <= Taken'
      <4>1. CASE wire'[d][i] = f
        BY <1>2, <2>1, <2>3, <4>1 DEF IInv, WireIsAhead
      <4>2. CASE i \in DOMAIN wire[d] /\ wire'[d][i] = wire[d][i]
        <5>1. /\ wire[d][i] \in Messages /\ wire[d][i] <= Taken
              /\ wire[d][i] = Hello \/ shown < wire[d][i]
          BY <3>3, <4>2 DEF IInv, WireIsAhead
        <5>2. QED
          BY <2>1, <2>3, <4>2, <5>1 DEF Messages
      <4>3. QED
        BY <3>1, <4>1, <4>2
    <3>6. shown' <= Taken'
      BY <1>2, <2>1, <2>3 DEF IInv, WireIsAhead
    <3>7. WireIsAhead'
      BY <3>1, <3>4, <3>6 DEF WireIsAhead
    <3>5. QED
      BY <1>1, <2>4, <3>2, <3>7 DEF IInv
  <2>7. CASE viewer[current] = "gone" /\ UNCHANGED <<thread, current, wire>>
    <3>1. wire' = Sent(current, f)
      BY <2>7 DEF Sent
    <3>2. QED
      BY <2>6, <2>7, <3>1
  <2>8. CASE /\ viewer[current] = "gone"
             /\ thread' = "accept" /\ current' = None /\ UNCHANGED wire
    <3>1. \A c \in Conns : wire[c] = << >> /\ wire'[c] = << >> /\ DOMAIN wire'[c] = {}
      BY <2>1, <2>8 DEF IInv, OneWire
    <3>2. OneWire'
      BY <3>1 DEF OneWire
    <3>3. WireIsAhead'
      BY <1>2, <2>1, <2>3, <3>1 DEF IInv, WireIsAhead
    <3>4. QED
      BY <1>1, <2>4, <3>2, <3>3 DEF IInv
  <2>9. QED
    BY <1>7, <2>6, <2>7, <2>8 DEF Stream, serverVars, f
<1>8. CASE Exit
  BY <1>1, <1>8, QuietStep DEF Exit, gameVars, viewerVars
<1>9. CASE Connect
  BY <1>1, <1>9, QuietStep DEF Connect, gameVars, serverVars
<1>10. ASSUME NEW c \in Conns, Ask(c) PROVE IInv'
  <2>1. \A d \in Conns : viewer'[d] = "gone" => viewer[d] = "gone"
    BY <1>1, <1>10 DEF Ask, TypeOK
  <2>2. QED
    BY <1>1, <1>10, <2>1, QuietStep DEF Ask, gameVars, serverVars
<1>11. ASSUME NEW c \in Conns, Read(c) PROVE IInv'
  <2>1. /\ UNCHANGED <<sent, channel, thread, current, viewer>>
        /\ wire[c] # << >> /\ viewer[c] = "asking"
        /\ wire' = [wire EXCEPT ![c] = Tail(@)]
        /\ shown' = IF Head(wire[c]) = Hello THEN shown ELSE Head(wire[c])
    BY <1>11 DEF Read, gameVars, serverVars
  <2>2. /\ wire'[c] = Tail(wire[c]) /\ wire[c] \in Seq(Messages)
        /\ \A d \in Conns : d # c => wire'[d] = wire[d] /\ wire[d] = << >>
    BY <1>2, <2>1 DEF IInv, OneWire
  <2>3. /\ Len(wire[c]) \in Nat /\ Len(wire[c]) >= 1
        /\ DOMAIN wire[c] = 1 .. Len(wire[c])
        /\ DOMAIN wire'[c] = 1 .. Len(wire[c]) - 1
        /\ Head(wire[c]) = wire[c][1]
        /\ \A i \in 1 .. Len(wire[c]) - 1 : wire'[c][i] = wire[c][i + 1]
        /\ \A i \in 1 .. Len(wire[c]) : wire[c][i] \in Nat
    <3>1. \A m \in Messages : m \in Nat
      BY DEF Messages
    <3>2. wire[c] \in Seq(Messages) /\ wire[c] # << >>
      BY <2>1, <2>2
    <3>3. /\ Len(wire[c]) \in Nat /\ Len(wire[c]) >= 1
          /\ DOMAIN wire[c] = 1 .. Len(wire[c]) /\ Head(wire[c]) = wire[c][1]
          /\ \A i \in 1 .. Len(wire[c]) : wire[c][i] \in Messages
          /\ DOMAIN Tail(wire[c]) = 1 .. Len(wire[c]) - 1
          /\ \A i \in 1 .. Len(wire[c]) - 1 : Tail(wire[c])[i] = wire[c][i + 1]
      BY ONLY <3>2, HeadAndTail
    <3>4. wire'[c] = Tail(wire[c])
      BY <2>2
    <3>5. QED
      BY <3>1, <3>3, <3>4
  <2>4. Taken' = Taken /\ ChannelIsLatest'
    BY <2>1 DEF Taken, IInv, ChannelIsLatest
  <2>5. OneWire'
    BY <2>1, <2>2 DEF IInv, OneWire
  <2>6. \A i \in 1 .. Len(wire[c]) :
          /\ wire[c][i] = Hello \/ shown < wire[c][i]
          /\ wire[c][i] <= Taken
    BY <2>3 DEF IInv, WireIsAhead
  <2>7. \A i, j \in 1 .. Len(wire[c]) : i < j => wire[c][i] < wire[c][j]
    BY <2>3 DEF IInv, WireIsAhead
  <2>8. shown' <= Taken'
    BY <2>1, <2>3, <2>4, <2>6 DEF IInv, WireIsAhead
  <2>9. \A i \in 1 .. Len(wire[c]) - 1 :
          /\ wire'[c][i] = Hello \/ shown' < wire'[c][i]
          /\ wire'[c][i] <= Taken'
    <3>1. TAKE i \in 1 .. Len(wire[c]) - 1
    <3>2. /\ i + 1 \in 1 .. Len(wire[c]) /\ 1 \in 1 .. Len(wire[c]) /\ 1 < i + 1
          /\ wire'[c][i] = wire[c][i + 1]
      BY <2>3
    <3>3. wire[c][1] < wire[c][i + 1]
      BY <2>7, <3>2
    <3>4. QED
      BY <2>1, <2>3, <2>4, <2>6, <3>2, <3>3
  <2>10. \A i, j \in 1 .. Len(wire[c]) - 1 : i < j => wire'[c][i] < wire'[c][j]
    <3>1. TAKE i, j \in 1 .. Len(wire[c]) - 1
    <3>2. /\ i + 1 \in 1 .. Len(wire[c]) /\ j + 1 \in 1 .. Len(wire[c])
          /\ i < j => i + 1 < j + 1
      BY <2>3
    <3>3. QED
      BY <2>3, <2>7, <3>2
  <2>11. \A d \in Conns : d # c => DOMAIN wire'[d] = {}
    BY <2>2
  <2>12. WireIsAhead'
    BY <2>3, <2>8, <2>9, <2>10, <2>11 DEF WireIsAhead
  <2>13. QED
    BY <1>1, <2>4, <2>5, <2>12 DEF IInv
<1>12. ASSUME NEW c \in Conns, Leave(c) PROVE IInv'
  <2>1. /\ UNCHANGED <<sent, channel, thread, current, shown>>
        /\ wire' = [wire EXCEPT ![c] = << >>]
        /\ viewer' = [viewer EXCEPT ![c] = "gone"]
    BY <1>12 DEF Leave, gameVars, serverVars
  <2>2. /\ wire'[c] = << >> /\ DOMAIN wire'[c] = {}
        /\ \A d \in Conns : d # c => wire'[d] = wire[d] /\ viewer'[d] = viewer[d]
    BY <1>1, <1>2, <2>1 DEF TypeOK
  <2>3. Taken' = Taken /\ ChannelIsLatest'
    BY <2>1 DEF Taken, IInv, ChannelIsLatest
  <2>4. OneWire'
    BY <2>1, <2>2 DEF IInv, OneWire
  <2>5. WireIsAhead'
    BY <2>1, <2>2, <2>3 DEF IInv, WireIsAhead
  <2>6. QED
    BY <1>1, <2>3, <2>4, <2>5 DEF IInv
<1>13. CASE UNCHANGED vars
  BY <1>1, <1>13, QuietStep DEF vars
<1>14. QED
  BY <1>3, <1>4, <1>5, <1>6, <1>7, <1>8, <1>9, <1>10, <1>11, <1>12, <1>13 DEF Next

LEMMA IInvCorrect == Spec => []IInv
BY InitIInv, StepIInv, PTL DEF Spec

----------------------------------------------------------------------------
(* The refinement *)

LEMMA PromiseStep ==
  IInv /\ [Next]_vars => [Promise!Next]_<<sent, shown>>
<1> SUFFICES ASSUME IInv, [Next]_vars
             PROVE  Promise!Next \/ UNCHANGED <<sent, shown>>
  OBVIOUS
<1> USE DEF gameVars, serverVars, viewerVars
<1>1. CASE SendFrame
  BY <1>1 DEF SendFrame, Promise!Next, Promise!Send
<1>2. ASSUME NEW c \in Conns, Read(c)
      PROVE  Promise!Next \/ UNCHANGED <<sent, shown>>
  <2>1. /\ wire[c] \in Seq(Messages) /\ wire[c] # << >> /\ sent' = sent
        /\ shown' = IF Head(wire[c]) = Hello THEN shown ELSE Head(wire[c])
    BY <1>2 DEF Read, IInv, TypeOK
  <2>2. 1 \in DOMAIN wire[c] /\ Head(wire[c]) = wire[c][1] /\ wire[c][1] \in Messages
    BY <2>1
  <2>3. CASE wire[c][1] = Hello
    BY <2>1, <2>2, <2>3
  <2>4. CASE wire[c][1] # Hello
    <3>1. /\ shown < wire[c][1] /\ wire[c][1] <= Taken
          /\ channel \in Seq(Messages) /\ sent \in Nat
      BY <2>2, <2>4 DEF IInv, WireIsAhead, TypeOK
    <3>2. Taken <= sent
      BY <3>1 DEF Taken
    <3>3. wire[c][1] \in 1 .. sent
      BY <2>2, <2>4, <3>1, <3>2 DEF Messages, Hello, Taken
    <3>4. Promise!Show(wire[c][1])
      BY <2>1, <2>2, <2>4, <3>1, <3>3 DEF Promise!Show
    <3>5. QED
      BY <3>3, <3>4 DEF Promise!Next
  <2>5. QED
    BY <2>3, <2>4
<1>3. QED
  BY <1>1, <1>2 DEF Next, vars, DropServer, Accept, Greet, Stream, Exit, Connect,
                    Ask, Leave

\* Whatever viewers do, taken together they receive frames in the order in
\* which they were sent and no frame twice.
THEOREM ImplementsStreamCorrect == Spec => ImplementsStream
<1>1. Init => Promise!Init
  BY DEF Init, Promise!Init
<1>2. QED
  BY <1>1, PromiseStep, IInvCorrect, PTL DEF Spec, ImplementsStream, Promise!Spec

----------------------------------------------------------------------------
(* No gap *)

HIDE LiveAssumption DEF Hello, None, Conns, Messages

\* What a viewer has read and what is on its way to it.
Log(c) == seen[c] \o wire[c]

GapFree(log) ==
  \A i \in DOMAIN log :
    /\ (i = 1) <=> (log[i] = Hello)
    /\ i > 2 => log[i] = log[i - 1] + 1

\* m may follow what is in the log.
Fits(log, m) ==
  \/ log = << >> /\ m = Hello
  \/ log # << >> /\ m # Hello /\ (Len(log) >= 2 => m = log[Len(log)] + 1)

NoGap == \A c \in Conns : GapFree(Log(c))

\* Connections wait in the order they came, behind the current one.
Queued ==
  /\ current <= conns
  /\ \A i \in DOMAIN backlog : current < backlog[i] /\ backlog[i] <= conns
  /\ \A i, j \in DOMAIN backlog : i < j => backlog[i] < backlog[j]

Waits(c) ==
  \/ c > conns
  \/ \E i \in DOMAIN backlog : backlog[i] = c
  \/ thread = "greet" /\ current = c

Untouched == \A c \in Conns : Waits(c) => seen[c] = << >> /\ wire[c] = << >>

\* The next frame the thread takes is the one the current viewer needs next,
\* unless it has left. SeesWithoutGap is not inductive without it.
Watched ==
  thread = "stream" /\ viewer[current] # "gone" => Fits(Log(current), Taken + 1)

GapInv == IInv /\ NoGap /\ Queued /\ Untouched /\ Watched

----------------------------------------------------------------------------
(* Sequences *)

LEMMA Positions ==
  ASSUME NEW s \in Seq(Messages)
  PROVE  /\ Len(s) \in Nat /\ DOMAIN s = 1 .. Len(s)
         /\ \A i \in DOMAIN s : s[i] \in Nat
         /\ s # << >> => Len(s) >= 1
<1>1. Messages \subseteq Nat
  BY LiveAssumption DEF Messages
<1>2. \A i \in DOMAIN s : s[i] \in Messages
  OBVIOUS
<1>3. \A i \in DOMAIN s : s[i] \in Nat
  BY <1>1, <1>2
<1>4. Len(s) \in Nat /\ DOMAIN s = 1 .. Len(s) /\ (s # << >> => Len(s) >= 1)
  OBVIOUS
<1>5. QED
  BY <1>3, <1>4

LEMMA Appended ==
  ASSUME NEW s \in Seq(Messages), NEW m \in Messages
  PROVE  /\ Append(s, m) \in Seq(Messages)
         /\ DOMAIN Append(s, m) = 1 .. Len(s) + 1 /\ Len(Append(s, m)) = Len(s) + 1
         /\ Append(s, m)[Len(s) + 1] = m
         /\ \A i \in DOMAIN s : Append(s, m)[i] = s[i]
OBVIOUS

LEMMA AppendGapFree ==
  ASSUME NEW s \in Seq(Messages), NEW m \in Messages, GapFree(s), Fits(s, m)
  PROVE  GapFree(Append(s, m))
<1> DEFINE r == Append(s, m)
           n == Len(s)
<1>1. /\ n \in Nat /\ DOMAIN s = 1 .. n /\ \A i \in 1 .. n : s[i] \in Nat
      /\ s # << >> => n >= 1
      /\ DOMAIN r = 1 .. n + 1 /\ r[n + 1] = m /\ \A i \in 1 .. n : r[i] = s[i]
  BY Positions, Appended
<1>2. s = << >> => n = 0
  OBVIOUS
<1> HIDE DEF r, n
<1>3. ASSUME NEW i \in 1 .. n + 1
      PROVE  ((i = 1) <=> (r[i] = Hello)) /\ (i > 2 => r[i] = r[i - 1] + 1)
  <2>1. CASE i \in 1 .. n
    <3>1. r[i] = s[i] /\ (i > 2 => i - 1 \in 1 .. n /\ r[i - 1] = s[i - 1])
      BY <1>1, <2>1
    <3>2. ((i = 1) <=> (s[i] = Hello)) /\ (i > 2 => s[i] = s[i - 1] + 1)
      BY <1>1, <2>1 DEF GapFree
    <3>3. QED
      BY <3>1, <3>2
  <2>2. CASE i = n + 1
    <3>1. r[i] = m
      BY <1>1, <2>2
    <3>2. CASE s = << >>
      BY <1>1, <1>2, <2>2, <3>1, <3>2 DEF Fits
    <3>3. CASE s # << >>
      <4>1. n >= 1 /\ m # Hello /\ (n >= 2 => m = s[n] + 1)
        BY <1>1, <3>3 DEF Fits, n
      <4>2. i # 1 /\ (i > 2 => i - 1 = n /\ r[n] = s[n] /\ n >= 2)
        BY <1>1, <2>2, <4>1
      <4>3. QED
        BY <3>1, <4>1, <4>2
    <3>4. QED
      BY <3>2, <3>3
  <2>3. QED
    BY <1>1, <2>1, <2>2
<1>4. QED
  BY <1>1, <1>3 DEF GapFree, r

LEMMA FitsAfter ==
  ASSUME NEW s \in Seq(Messages), NEW m \in Messages, NEW n \in Nat \ {0},
         s = << >> \/ n = m + 1
  PROVE  Fits(Append(s, m), n)
<1> DEFINE r == Append(s, m)
<1>1. /\ Len(r) = Len(s) + 1 /\ r[Len(s) + 1] = m /\ Len(s) \in Nat
      /\ s = << >> => Len(s) = 0
  BY Appended
<1>2. r # << >>
  BY <1>1
<1> HIDE DEF r
<1>3. n # Hello
  BY DEF Hello
<1>4. QED
  BY <1>1, <1>2, <1>3 DEF Fits, r

LEMMA PrefixGapFree ==
  ASSUME NEW s \in Seq(Messages), NEW w \in Seq(Messages), GapFree(s \o w)
  PROVE  GapFree(s)
<1> DEFINE r == s \o w
           n == Len(s)
<1>1. /\ DOMAIN s = 1 .. n /\ n \in Nat
      /\ \A i \in 1 .. n : i \in DOMAIN r /\ r[i] = s[i]
  OBVIOUS
<1> HIDE DEF r, n
<1>2. \A i \in 1 .. n : /\ (i = 1) <=> (r[i] = Hello)
                        /\ i > 2 => r[i] = r[i - 1] + 1
  BY <1>1 DEF GapFree, r
<1>3. ASSUME NEW i \in 1 .. n
      PROVE  ((i = 1) <=> (s[i] = Hello)) /\ (i > 2 => s[i] = s[i - 1] + 1)
  <2>1. r[i] = s[i] /\ (i > 2 => i - 1 \in 1 .. n /\ r[i - 1] = s[i - 1])
    BY <1>1
  <2>2. QED
    BY <1>2, <2>1
<1>4. QED
  BY <1>1, <1>3 DEF GapFree

\* Reading moves the head of what is under way to the end of what was read.
LEMMA MoveHead ==
  ASSUME NEW s \in Seq(Messages), NEW w \in Seq(Messages), w # << >>
  PROVE  Append(s, Head(w)) \o Tail(w) = s \o w
<1>1. /\ Head(w) \in Messages /\ Tail(w) \in Seq(Messages)
      /\ w = <<Head(w)>> \o Tail(w)
  <2>1. Head(w) \in Messages /\ Tail(w) \in Seq(Messages)
    OBVIOUS
  <2> DEFINE r == <<Head(w)>> \o Tail(w)
  <2>2. r \in Seq(Messages) /\ Len(r) = Len(w)
    OBVIOUS
  <2>3. \A i \in 1 .. Len(w) : r[i] = w[i]
    OBVIOUS
  <2> HIDE DEF r
  <2>4. r = w
    BY <2>2, <2>3, SeqEqual
  <2>5. QED
    BY <2>1, <2>4 DEF r
<1> DEFINE h == <<Head(w)>>
           t == Tail(w)
<1>2. h \in Seq(Messages) /\ t \in Seq(Messages) /\ w = h \o t
  BY <1>1
<1>3. Append(s, Head(w)) = s \o h
  BY <1>1, AppendIsConcat
<1> HIDE DEF h, t
<1>4. (s \o h) \o t = s \o (h \o t)
  BY <1>2, ConcatAssociative
<1>5. QED
  BY <1>2, <1>3, <1>4 DEF t

LEMMA AppendToLog ==
  ASSUME NEW s \in Seq(Messages), NEW w \in Seq(Messages), NEW m \in Messages
  PROVE  s \o Append(w, m) = Append(s \o w, m) /\ s \o w \in Seq(Messages)
<1> DEFINE one == <<m>>
           both == s \o w
<1>1. one \in Seq(Messages) /\ both \in Seq(Messages)
  OBVIOUS
<1>2. Append(w, m) = w \o one
  BY AppendIsConcat
<1> HIDE DEF both
<1>3. Append(both, m) = both \o one
  BY <1>1, AppendIsConcat
<1> HIDE DEF one
<1>4. (s \o w) \o one = s \o (w \o one)
  BY <1>1, ConcatAssociative
<1>5. QED
  BY <1>1, <1>2, <1>3, <1>4 DEF both

----------------------------------------------------------------------------
(* Steps *)

LEMMA LogTypes ==
  ASSUME IInv
  PROVE  /\ seen \in [Conns -> Seq(Messages)] /\ wire \in [Conns -> Seq(Messages)]
         /\ viewer \in [Conns -> {"silent", "asking", "gone"}]
         /\ backlog \in Seq(Conns) /\ conns \in Nat /\ current \in Nat
         /\ Taken \in Nat
<1>1. /\ channel \in Seq(Messages) /\ sent \in Nat /\ Len(channel) <= sent
  BY LiveAssumption DEF IInv, TypeOK, ChannelIsLatest
<1>2. Taken \in Nat
  BY <1>1 DEF Taken
<1>3. current \in Nat /\ conns \in Nat
  BY LiveAssumption DEF IInv, TypeOK, Conns, None
<1>4. QED
  BY <1>2, <1>3 DEF IInv, TypeOK

\* Nothing is read or sent.
LEMMA QuietGap ==
  ASSUME GapInv, IInv', UNCHANGED <<seen, wire>>, Queued',
         \A c \in Conns : Waits(c)' => Waits(c),
         thread' = "stream" /\ viewer'[current'] # "gone" =>
           /\ thread = "stream" /\ viewer[current] # "gone"
           /\ current' = current /\ Taken' = Taken
  PROVE  GapInv'
<1>1. NoGap' /\ Untouched'
  BY DEF GapInv, NoGap, Untouched, Log
<1>2. Watched'
  BY DEF GapInv, Watched, Log
<1>3. QED
  BY <1>1, <1>2 DEF GapInv

\* The thread sends m to a viewer that is still there.
LEMMA WriteGap ==
  ASSUME GapInv, IInv', NEW c \in Conns, NEW m \in Messages,
         UNCHANGED <<seen, viewer>>, wire' = Sent(c, m), viewer[c] # "gone",
         current' = c, Fits(Log(c), m),
         Fits(Append(Log(c), m), Taken' + 1),
         Queued', \A d \in Conns : Waits(d)' => Waits(d) /\ d # c
  PROVE  GapInv'
<1>1. seen \in [Conns -> Seq(Messages)] /\ wire \in [Conns -> Seq(Messages)]
  BY LogTypes DEF GapInv
<1>2. wire' = [wire EXCEPT ![c] = Append(wire[c], m)]
  BY <1>1 DEF Sent
<1>3. wire'[c] = Append(wire[c], m) /\ \A d \in Conns : d # c => wire'[d] = wire[d]
  BY <1>1, <1>2
<1>4. Log(c)' = Append(Log(c), m) /\ Log(c) \in Seq(Messages)
  <2> DEFINE s == seen[c]
             w == wire[c]
  <2>1. s \in Seq(Messages) /\ w \in Seq(Messages)
    BY <1>1
  <2>2. Log(c) = s \o w /\ Log(c)' = s \o Append(w, m)
    BY <1>3 DEF Log
  <2> HIDE DEF s, w
  <2>3. QED
    BY <2>1, <2>2, AppendToLog
<1>5. GapFree(Log(c))
  BY DEF GapInv, NoGap
<1>6. GapFree(Log(c)')
  BY <1>4, <1>5, AppendGapFree
<1>7. \A d \in Conns : d # c => Log(d)' = Log(d)
  BY <1>3 DEF Log
<1>8. NoGap'
  BY <1>6, <1>7 DEF GapInv, NoGap, GapFree
<1>9. Untouched'
  BY <1>3 DEF GapInv, Untouched
<1>10. Watched'
  BY <1>4 DEF Watched, Fits
<1>11. QED
  BY <1>8, <1>9, <1>10 DEF GapInv

LEMMA ReadGap ==
  ASSUME GapInv, IInv', NEW c \in Conns, Read(c)
  PROVE  GapInv'
<1>1. /\ seen \in [Conns -> Seq(Messages)] /\ wire \in [Conns -> Seq(Messages)]
  BY LogTypes DEF GapInv
<1>2. /\ wire[c] # << >>
      /\ seen'[c] = Append(seen[c], Head(wire[c])) /\ wire'[c] = Tail(wire[c])
      /\ \A d \in Conns : d # c => seen'[d] = seen[d] /\ wire'[d] = wire[d]
      /\ UNCHANGED <<sent, channel, thread, current, backlog, conns, viewer>>
  BY <1>1 DEF Read, gameVars, serverVars
<1>3. Log(c)' = Log(c)
  <2> DEFINE s == seen[c]
             w == wire[c]
  <2>1. s \in Seq(Messages) /\ w \in Seq(Messages) /\ w # << >>
    BY <1>1, <1>2
  <2>2. Log(c) = s \o w /\ Log(c)' = Append(s, Head(w)) \o Tail(w)
    BY <1>2 DEF Log
  <2> HIDE DEF s, w
  <2>3. QED
    BY <2>1, <2>2, MoveHead
<1>4. \A d \in Conns : Log(d)' = Log(d)
  BY <1>2, <1>3 DEF Log
<1>5. NoGap'
  BY <1>4 DEF GapInv, NoGap, GapFree
<1>6. Queued'
  BY <1>2 DEF GapInv, Queued
<1>7. Untouched'
  BY <1>2 DEF GapInv, Untouched, Waits
<1>8. Watched'
  <2>1. Taken' = Taken
    BY <1>2 DEF Taken
  <2>2. thread = "stream" => current \in Conns
    BY DEF GapInv, IInv, TypeOK
  <2>3. SUFFICES ASSUME thread = "stream", viewer[current] # "gone"
                 PROVE  Fits(Log(current)', Taken + 1)
    BY <1>2, <2>1 DEF Watched, Log, Fits
  <2>4. Log(current)' = Log(current)
    BY <1>2, <1>4, <2>2, <2>3 DEF Log
  <2>5. QED
    BY <2>3, <2>4 DEF GapInv, Watched
<1>9. QED
  BY <1>5, <1>6, <1>7, <1>8 DEF GapInv

LEMMA LeaveGap ==
  ASSUME GapInv, IInv', NEW c \in Conns, Leave(c)
  PROVE  GapInv'
<1>1. /\ seen \in [Conns -> Seq(Messages)] /\ wire \in [Conns -> Seq(Messages)]
      /\ viewer \in [Conns -> {"silent", "asking", "gone"}]
  BY LogTypes DEF GapInv
<1>2. /\ wire'[c] = << >> /\ viewer'[c] = "gone"
      /\ \A d \in Conns : d # c => wire'[d] = wire[d] /\ viewer'[d] = viewer[d]
      /\ UNCHANGED <<sent, channel, thread, current, backlog, conns, seen>>
  BY <1>1 DEF Leave, gameVars, serverVars
<1>3. GapFree(Log(c)')
  <2> DEFINE s == seen[c]
             w == wire[c]
  <2>1. s \in Seq(Messages) /\ w \in Seq(Messages) /\ GapFree(s \o w)
    BY <1>1 DEF GapInv, NoGap, Log
  <2>2. Log(c)' = s \o << >>
    BY <1>2 DEF Log
  <2> HIDE DEF s, w
  <2>3. Log(c)' = s
    BY <2>1, <2>2, ConcatEmptySeq
  <2>4. QED
    BY <2>1, <2>3, PrefixGapFree
<1>4. \A d \in Conns : d # c => Log(d)' = Log(d)
  BY <1>2 DEF Log
<1>5. NoGap'
  BY <1>3, <1>4 DEF GapInv, NoGap, GapFree
<1>6. Queued'
  BY <1>2 DEF GapInv, Queued
<1>7. Untouched'
  BY <1>2 DEF GapInv, Untouched, Waits
<1>8. Watched'
  <2>1. Taken' = Taken
    BY <1>2 DEF Taken
  <2>2. thread = "stream" => current \in Conns
    BY DEF GapInv, IInv, TypeOK
  <2>3. SUFFICES ASSUME thread = "stream", viewer'[current] # "gone"
                 PROVE  Fits(Log(current)', Taken + 1)
    BY <1>2, <2>1 DEF Watched, Log, Fits
  <2>4. current # c /\ viewer[current] # "gone"
    BY <1>2, <2>2, <2>3
  <2>5. Log(current)' = Log(current)
    BY <1>2, <2>2, <2>3, <2>4 DEF Log
  <2>6. QED
    BY <2>3, <2>4, <2>5 DEF GapInv, Watched
<1>9. QED
  BY <1>5, <1>6, <1>7, <1>8 DEF GapInv

LEMMA InitGap == Init => GapInv
<1> SUFFICES ASSUME Init PROVE GapInv
  OBVIOUS
<1>1. IInv
  BY InitIInv
<1>2. \A c \in Conns : Log(c) = << >>
  BY DEF Init, Log
<1>3. DOMAIN << >> = {}
  OBVIOUS
<1>4. NoGap
  BY <1>2, <1>3 DEF NoGap, GapFree
<1>5. Queued /\ Untouched /\ Watched
  BY DEF Init, Queued, Untouched, Watched, None
<1>6. QED
  BY <1>1, <1>4, <1>5 DEF GapInv

LEMMA StepGap == GapInv /\ [Next]_vars => GapInv'
<1> SUFFICES ASSUME GapInv, [Next]_vars PROVE GapInv'
  OBVIOUS
<1>1. IInv /\ IInv'
  BY StepIInv DEF GapInv
<1>2. /\ backlog \in Seq(Conns) /\ conns \in Nat /\ current \in Nat /\ Taken \in Nat
      /\ DOMAIN backlog = 1 .. Len(backlog) /\ Len(backlog) \in Nat
      /\ Queued
  <2>1. backlog \in Seq(Conns)
    BY <1>1, LogTypes
  <2>2. QED
    BY <1>1, <2>1, LogTypes DEF GapInv
<1>3. CASE SendFrame
  <2>1. /\ sent' = sent + 1 /\ channel' = Append(channel, sent + 1)
        /\ UNCHANGED <<thread, current, backlog, conns, viewer, seen, wire>>
    BY <1>3 DEF SendFrame, serverVars, viewerVars
  <2>2. channel \in Seq(Messages) /\ sent \in Nat
    BY <1>1, LiveAssumption DEF IInv, TypeOK
  <2>3. Taken' = Taken
    BY <2>1, <2>2 DEF Taken
  <2>4. Queued' /\ \A c \in Conns : Waits(c)' => Waits(c)
    BY <1>2, <2>1 DEF Queued, Waits
  <2>5. QED
    BY <1>1, <2>1, <2>3, <2>4, QuietGap
<1>4. CASE DropServer
  <2>1. UNCHANGED <<sent, channel, thread, current, backlog, conns, viewer, seen, wire>>
    BY <1>4 DEF DropServer, serverVars, viewerVars
  <2>2. Queued' /\ (\A c \in Conns : Waits(c)' => Waits(c)) /\ Taken' = Taken
    BY <1>2, <2>1 DEF Queued, Waits, Taken
  <2>3. QED
    BY <1>1, <2>1, <2>2, QuietGap
<1>5. CASE Accept
  <2>1. /\ backlog # << >> /\ current' = Head(backlog) /\ backlog' = Tail(backlog)
        /\ thread' = "greet" /\ UNCHANGED <<conns, seen, wire>>
    BY <1>5 DEF Accept, viewerVars
  <2>2. /\ Len(backlog) >= 1 /\ Head(backlog) = backlog[1]
        /\ DOMAIN Tail(backlog) = 1 .. Len(backlog) - 1
        /\ \A i \in 1 .. Len(backlog) - 1 : Tail(backlog)[i] = backlog[i + 1]
    BY <1>2, <2>1, HeadAndTail
  <2>3. \A i \in DOMAIN backlog' : i + 1 \in DOMAIN backlog /\ backlog'[i] = backlog[i + 1]
                                   /\ 1 < i + 1 /\ i \in Nat
    BY <1>2, <2>1, <2>2
  <2>4. Queued'
    <3>1. 1 \in DOMAIN backlog /\ current' = backlog[1]
      BY <1>2, <2>1, <2>2
    <3>2. current' <= conns'
      BY <1>2, <2>1, <3>1 DEF Queued
    <3>3. \A i \in DOMAIN backlog' : current' < backlog'[i] /\ backlog'[i] <= conns'
      BY <1>2, <2>1, <2>3, <3>1 DEF Queued
    <3>4. \A i, j \in DOMAIN backlog' : i < j => backlog'[i] < backlog'[j]
      <4> SUFFICES ASSUME NEW i \in DOMAIN backlog', NEW j \in DOMAIN backlog', i < j
                   PROVE  backlog'[i] < backlog'[j]
        OBVIOUS
      <4>1. i + 1 \in DOMAIN backlog /\ j + 1 \in DOMAIN backlog /\ i + 1 < j + 1
        BY <2>3
      <4>2. backlog[i + 1] < backlog[j + 1]
        BY <1>2, <4>1 DEF Queued
      <4>3. QED
        BY <2>3, <4>2
    <3>5. QED
      BY <3>2, <3>3, <3>4 DEF Queued
  <2>5. \A c \in Conns : Waits(c)' => Waits(c)
    <3>1. 1 \in DOMAIN backlog /\ current' = backlog[1]
      BY <1>2, <2>1, <2>2
    <3>2. QED
      BY <2>1, <2>3, <3>1 DEF Waits
  <2>6. QED
    BY <1>1, <2>1, <2>4, <2>5, QuietGap
<1>6. CASE Greet
  <2>1. /\ thread = "greet" /\ current \in Conns
        /\ UNCHANGED <<sent, channel, backlog, conns, viewer, seen>>
    <3>1. /\ thread = "greet"
          /\ UNCHANGED <<sent, channel, backlog, conns, viewer, seen>>
      BY <1>6 DEF Greet, gameVars, viewerVars
    <3>2. QED
      BY <1>1, <3>1 DEF IInv, TypeOK
  <2>2. Taken' = Taken
    BY <2>1 DEF Taken
  <2>3. CASE thread' = "accept" /\ current' = None /\ UNCHANGED wire
    <3>1. \A i \in DOMAIN backlog : backlog[i] \in Nat /\ 0 < backlog[i]
      <4>1. \A i \in DOMAIN backlog : backlog[i] \in Conns
        BY <1>2
      <4>2. QED
        BY <4>1, LiveAssumption DEF Conns
    <3>2. Queued'
      BY <1>2, <2>1, <2>3, <3>1 DEF Queued, None
    <3>3. \A c \in Conns : Waits(c)' => Waits(c)
      BY <2>1, <2>3 DEF Waits
    <3>4. QED
      BY <1>1, <2>1, <2>3, <3>2, <3>3, QuietGap
  <2>4. CASE thread' = "stream" /\ current' = current /\ wire' = Sent(current, Hello)
    <3>1. Queued'
      BY <1>2, <2>1, <2>4 DEF Queued
    <3>2. \A d \in Conns : Waits(d)' => Waits(d) /\ d # current
      <4> SUFFICES ASSUME NEW d \in Conns, Waits(d)' PROVE Waits(d) /\ d # current
        OBVIOUS
      <4>1. d > conns \/ \E i \in DOMAIN backlog : backlog[i] = d
        BY <2>1, <2>4 DEF Waits
      <4>2. d > current
        BY <1>2, <4>1, LiveAssumption DEF Queued, Conns
      <4>3. QED
        BY <1>2, <4>1, <4>2 DEF Waits
    <3>3. CASE viewer[current] = "gone"
      BY <1>1, <2>1, <2>4, <3>1, <3>2, <3>3, QuietGap DEF Sent
    <3>4. CASE viewer[current] # "gone"
      <4>1. seen[current] = << >> /\ wire[current] = << >>
        BY <2>1 DEF GapInv, Untouched, Waits
      <4>2. Log(current) = << >> /\ Log(current) \in Seq(Messages)
        BY <4>1 DEF Log
      <4>3. Hello \in Messages
        BY LiveAssumption DEF Hello, Messages
      <4>4. Fits(Log(current), Hello)
        BY <4>2 DEF Fits
      <4>5. Taken' + 1 \in Nat \ {0}
        BY <1>2, <2>2
      <4> DEFINE log == Log(current)
                 next == Taken' + 1
      <4>6. Fits(Append(log, Hello), next)
        <5>1. log = << >> /\ log \in Seq(Messages) /\ next \in Nat \ {0}
          BY <4>2, <4>5
        <5> HIDE DEF log, next
        <5>2. QED
          BY <4>3, <5>1, FitsAfter
      <4>7. QED
        BY <1>1, <2>1, <2>4, <3>1, <3>2, <3>4, <4>3, <4>4, <4>6, WriteGap
    <3>5. QED
      BY <3>3, <3>4
  <2>5. QED
    BY <1>6, <2>3, <2>4 DEF Greet
<1>7. CASE Stream
  <2>1. /\ thread = "stream" /\ channel # << >> /\ channel' = Tail(channel)
        /\ current \in Conns
        /\ UNCHANGED <<sent, backlog, conns, viewer, seen>>
    <3>1. /\ thread = "stream" /\ channel # << >> /\ channel' = Tail(channel)
          /\ UNCHANGED <<sent, backlog, conns, viewer, seen>>
      BY <1>7 DEF Stream, gameVars, viewerVars
    <3>2. QED
      BY <1>1, <3>1 DEF IInv, TypeOK
  <2>2. CASE viewer[current] # "gone" /\ wire' = Sent(current, Head(channel))
             /\ UNCHANGED serverVars
    <3>1. thread' = thread /\ current' = current
      BY <2>2 DEF serverVars
    <3>2. Queued'
      BY <1>2, <2>1, <3>1 DEF Queued
    <3>3. \A d \in Conns : Waits(d)' => Waits(d) /\ d # current
      <4> SUFFICES ASSUME NEW d \in Conns, Waits(d)' PROVE Waits(d) /\ d # current
        OBVIOUS
      <4>1. d > conns \/ \E i \in DOMAIN backlog : backlog[i] = d
        BY <2>1, <3>1 DEF Waits
      <4>2. d > current
        BY <1>2, <4>1, LiveAssumption DEF Queued, Conns
      <4>3. QED
        BY <1>2, <4>1, <4>2 DEF Waits
    <3>4. channel \in Seq(Messages) /\ sent \in Nat /\ ChannelIsLatest
      BY <1>1, LiveAssumption DEF IInv, TypeOK
    <3>5. /\ Head(channel) = Taken + 1 /\ Head(channel) \in Messages
          /\ Taken' = Taken + 1
      <4>1. /\ 1 \in DOMAIN channel /\ Head(channel) = channel[1]
            /\ Len(channel) \in Nat /\ Len(Tail(channel)) = Len(channel) - 1
            /\ Head(channel) \in Messages
        BY <2>1, <3>4
      <4>2. channel[1] = Taken + 1
        BY <3>4, <4>1 DEF ChannelIsLatest
      <4>3. Taken' = Taken + 1
        BY <2>1, <3>4, <4>1 DEF Taken
      <4>4. QED
        BY <4>1, <4>2, <4>3
    <3>6. Fits(Log(current), Head(channel))
      BY <2>1, <2>2, <3>5 DEF GapInv, Watched
    <3>7. Log(current) \in Seq(Messages)
      <4> DEFINE s == seen[current]
                 w == wire[current]
      <4>1. s \in Seq(Messages) /\ w \in Seq(Messages)
        BY <1>1, <2>1, LogTypes
      <4> HIDE DEF s, w
      <4>2. s \o w \in Seq(Messages)
        BY <4>1
      <4>3. QED
        BY <4>2 DEF Log, s, w
    <3> DEFINE log == Log(current)
               m == Head(channel)
               next == Taken' + 1
    <3>8. Fits(Append(log, m), next)
      <4>1. log \in Seq(Messages) /\ m \in Messages
            /\ next \in Nat \ {0} /\ next = m + 1
        BY <1>2, <3>5, <3>7
      <4> HIDE DEF log, m, next
      <4>2. QED
        BY <4>1, FitsAfter
    <3>9. QED
      BY <1>1, <2>1, <2>2, <3>1, <3>2, <3>3, <3>5, <3>6, <3>8, WriteGap
  <2>3. CASE viewer[current] = "gone" /\ UNCHANGED <<serverVars, wire>>
    <3>1. thread' = thread /\ current' = current /\ wire' = wire
      BY <2>3 DEF serverVars
    <3>2. Queued' /\ \A c \in Conns : Waits(c)' => Waits(c)
      BY <1>2, <2>1, <3>1 DEF Queued, Waits
    <3>3. QED
      BY <1>1, <2>1, <2>3, <3>1, <3>2, QuietGap
  <2>4. CASE thread' = "accept" /\ current' = None /\ UNCHANGED wire
    <3>1. \A i \in DOMAIN backlog : backlog[i] \in Nat /\ 0 < backlog[i]
      <4>1. \A i \in DOMAIN backlog : backlog[i] \in Conns
        BY <1>2
      <4>2. QED
        BY <4>1, LiveAssumption DEF Conns
    <3>2. Queued' /\ \A c \in Conns : Waits(c)' => Waits(c)
      BY <1>2, <2>1, <2>4, <3>1 DEF Queued, Waits, None
    <3>3. QED
      BY <1>1, <2>1, <2>4, <3>2, QuietGap
  <2>5. QED
    BY <1>7, <2>2, <2>3, <2>4 DEF Stream
<1>8. CASE Exit
  <2>1. /\ thread' = "exited" /\ current' = None /\ backlog' = << >>
        /\ UNCHANGED <<conns, seen, wire>>
    BY <1>8 DEF Exit, viewerVars
  <2>2. DOMAIN backlog' = {}
    BY <2>1
  <2>3. Queued' /\ \A c \in Conns : Waits(c)' => Waits(c)
    BY <1>2, <2>1, <2>2 DEF Queued, Waits, None
  <2>4. QED
    BY <1>1, <2>1, <2>3, QuietGap
<1>9. CASE Connect
  <2>1. /\ conns' = conns + 1 /\ backlog' = Append(backlog, conns + 1)
        /\ conns + 1 \in Conns
        /\ UNCHANGED <<sent, channel, thread, current, viewer, seen, wire>>
    BY <1>2, <1>9, LiveAssumption DEF Connect, gameVars, serverVars, Conns
  <2>2. /\ DOMAIN backlog' = 1 .. Len(backlog) + 1
        /\ backlog'[Len(backlog) + 1] = conns + 1
        /\ \A i \in 1 .. Len(backlog) : backlog'[i] = backlog[i]
        /\ \A i \in 1 .. Len(backlog) : backlog[i] \in Nat
    <3>1. \A i \in 1 .. Len(backlog) : backlog[i] \in Conns
      BY <1>2
    <3>2. Conns \subseteq Nat
      BY LiveAssumption DEF Conns
    <3>3. \A i \in 1 .. Len(backlog) : backlog[i] \in Nat
      BY <3>1, <3>2
    <3> HIDE DEF Conns
    <3>4. /\ DOMAIN backlog' = 1 .. Len(backlog) + 1
          /\ backlog'[Len(backlog) + 1] = conns + 1
          /\ \A i \in 1 .. Len(backlog) : backlog'[i] = backlog[i]
      BY <1>2, <2>1
    <3>5. QED
      BY <3>3, <3>4
  <2>3. ASSUME NEW i \in DOMAIN backlog'
        PROVE  \/ i = Len(backlog) + 1 /\ backlog'[i] = conns + 1
               \/ /\ i \in DOMAIN backlog /\ i < Len(backlog) + 1
                  /\ backlog'[i] = backlog[i] /\ backlog[i] \in Nat
                  /\ current < backlog[i] /\ backlog[i] <= conns
    <3>1. i = Len(backlog) + 1 \/ i \in 1 .. Len(backlog)
      BY <1>2, <2>2
    <3>2. QED
      BY <1>2, <2>2, <3>1 DEF Queued
  <2>4. \A i, j \in DOMAIN backlog' : i < j => backlog'[i] < backlog'[j]
    <3> SUFFICES ASSUME NEW i \in DOMAIN backlog', NEW j \in DOMAIN backlog', i < j
                 PROVE  backlog'[i] < backlog'[j]
      OBVIOUS
    <3>1. i \in Nat /\ j \in Nat /\ j <= Len(backlog) + 1
      BY <1>2, <2>2
    <3>2. i \in DOMAIN backlog /\ backlog'[i] = backlog[i] /\ backlog[i] \in Nat
          /\ backlog[i] <= conns
      BY <1>2, <2>3, <3>1
    <3>3. CASE backlog'[j] = conns + 1
      BY <1>2, <3>2, <3>3
    <3>4. CASE j \in DOMAIN backlog /\ backlog'[j] = backlog[j]
      BY <1>2, <3>2, <3>4 DEF Queued
    <3>5. QED
      BY <2>3, <3>3, <3>4
  <2>5. \A i \in DOMAIN backlog' : current < backlog'[i] /\ backlog'[i] <= conns + 1
    BY <1>2, <2>3 DEF Queued
  <2>6. Queued'
    BY <1>2, <2>1, <2>4, <2>5 DEF Queued
  <2>7. \A c \in Conns : Waits(c)' => Waits(c)
    <3> SUFFICES ASSUME NEW c \in Conns, Waits(c)' PROVE Waits(c)
      OBVIOUS
    <3>1. c \in Nat
      BY LiveAssumption DEF Conns
    <3>2. CASE c > conns'
      BY <1>2, <2>1, <3>1, <3>2 DEF Waits
    <3>3. CASE \E i \in DOMAIN backlog' : backlog'[i] = c
      BY <1>2, <2>3, <3>1, <3>3 DEF Waits
    <3>4. CASE thread' = "greet" /\ current' = c
      BY <2>1, <3>4 DEF Waits
    <3>5. QED
      BY <3>2, <3>3, <3>4 DEF Waits
  <2>8. Taken' = Taken
    BY <2>1 DEF Taken
  <2>9. QED
    BY <1>1, <2>1, <2>6, <2>7, <2>8, QuietGap
<1>10. ASSUME NEW c \in Conns, Ask(c) PROVE GapInv'
  <2>1. /\ viewer[c] = "silent" /\ viewer' = [viewer EXCEPT ![c] = "asking"]
        /\ UNCHANGED <<sent, channel, thread, current, backlog, conns, seen, wire>>
    BY <1>10 DEF Ask, gameVars, serverVars
  <2>2. Queued' /\ (\A d \in Conns : Waits(d)' => Waits(d)) /\ Taken' = Taken
    BY <1>2, <2>1 DEF Queued, Waits, Taken
  <2>3. thread = "stream" => current \in Conns
    BY <1>1 DEF IInv, TypeOK
  <2>4. thread = "stream" /\ viewer'[current] # "gone" => viewer[current] # "gone"
    BY <1>1, <2>1, <2>3, LogTypes
  <2>5. QED
    BY <1>1, <2>1, <2>2, <2>4, QuietGap
<1>11. ASSUME NEW c \in Conns, Read(c) PROVE GapInv'
  BY <1>1, <1>11, ReadGap
<1>12. ASSUME NEW c \in Conns, Leave(c) PROVE GapInv'
  BY <1>1, <1>12, LeaveGap
<1>13. CASE UNCHANGED vars
  <2>1. UNCHANGED <<sent, channel, thread, current, backlog, conns, viewer, seen, wire>>
    BY <1>13 DEF vars
  <2>2. Queued' /\ (\A d \in Conns : Waits(d)' => Waits(d)) /\ Taken' = Taken
    BY <1>2, <2>1 DEF Queued, Waits, Taken
  <2>3. QED
    BY <1>1, <2>1, <2>2, QuietGap
<1>14. QED
  BY <1>3, <1>4, <1>5, <1>6, <1>7, <1>8, <1>9, <1>10, <1>11, <1>12, <1>13 DEF Next

\* Every viewer reads hello and then consecutive frames, however the viewers
\* before it and after it come and go: what a connection carries starts and
\* ends somewhere in the game's stream and skips nothing in between.
THEOREM SeesWithoutGapCorrect == Spec => []SeesWithoutGap
<1>1. GapInv => SeesWithoutGap
  <2> SUFFICES ASSUME GapInv, NEW c \in Conns PROVE GapFree(seen[c])
    BY DEF SeesWithoutGap, GapFree
  <2> DEFINE s == seen[c]
             w == wire[c]
  <2>1. s \in Seq(Messages) /\ w \in Seq(Messages) /\ GapFree(s \o w)
    BY LogTypes DEF GapInv, NoGap, Log
  <2> HIDE DEF s, w
  <2>2. GapFree(s)
    BY <2>1, PrefixGapFree
  <2>3. QED
    BY <2>2 DEF s
<1>2. QED
  BY <1>1, InitGap, StepGap, PTL DEF Spec

----------------------------------------------------------------------------
(* Lost frames *)

\* What a connection has carried and not lost.
Carried(c) ==
  {seen[c][i] : i \in DOMAIN seen[c]} \cup {wire[c][i] : i \in DOMAIN wire[c]}

\* Connections whose turn has come, those that are over included.
Served(c) ==
  /\ c <= conns
  /\ current # None => c <= current
  /\ \A i \in DOMAIN backlog : c < backlog[i]

\* The connection a frame was taken for: what those before it carried is
\* older, what those after it carry is newer.
TakenFor(f, c) ==
  /\ Served(c)
  /\ viewer[c] = "gone" \/ f \in Carried(c)
  /\ \A d \in Conns : \A m \in Carried(d) :
       /\ d < c => m < f
       /\ d > c /\ m # Hello => m > f

LossInv ==
  /\ \A c \in Conns : Carried(c) \subseteq 0 .. Taken
  /\ \A c \in Conns : Carried(c) # {} => Served(c)
  /\ \A f \in 1 .. Taken : \E c \in Conns : TakenFor(f, c)

\* A step that takes no frame from the channel and sends hello at most.
LEMMA NoFrameTaken ==
  ASSUME LossInv, Taken \in Nat, Taken' = Taken,
         \A c \in Conns : Served(c) => Served(c)',
         \A c \in Conns : viewer[c] = "gone" => viewer'[c] = "gone",
         \A c \in Conns : Carried(c) \subseteq Carried(c)' \/ viewer'[c] = "gone",
         \A c \in Conns : \/ Carried(c)' \subseteq Carried(c)
                          \/ Served(c) /\ Carried(c)' \subseteq Carried(c) \cup {Hello}
  PROVE  LossInv'
<1>1. \A c \in Conns : Carried(c)' \subseteq Carried(c) \cup {Hello}
  OBVIOUS
<1>2. \A c \in Conns : Carried(c)' \subseteq 0 .. Taken'
  BY <1>1 DEF LossInv, Hello
<1>3. \A c \in Conns : Carried(c)' # {} => Served(c)'
  BY DEF LossInv
<1>4. ASSUME NEW f \in 1 .. Taken' PROVE \E c \in Conns : TakenFor(f, c)'
  <2>1. PICK c \in Conns : TakenFor(f, c)
    BY <1>4 DEF LossInv
  <2>2. Served(c)' /\ (viewer'[c] = "gone" \/ f \in Carried(c)')
    BY <2>1 DEF TakenFor
  <2>3. ASSUME NEW d \in Conns, NEW m \in Carried(d)'
        PROVE  (d < c => m < f) /\ (d > c /\ m # Hello => m > f)
    <3>1. CASE m \in Carried(d)
      BY <2>1, <3>1 DEF TakenFor
    <3>2. CASE m = Hello
      BY <3>2 DEF Hello
    <3>3. QED
      BY <1>1, <2>3, <3>1, <3>2
  <2>4. QED
    BY <2>2, <2>3 DEF TakenFor
<1>5. QED
  BY <1>2, <1>3, <1>4 DEF LossInv

\* The current connection's turn has come.
LEMMA CurrentIsServed ==
  ASSUME GapInv, current \in Conns
  PROVE  Served(current)
<1>1. current \in Nat
  BY LiveAssumption DEF Conns
<1>2. QED
  BY <1>1 DEF GapInv, Queued, Served

LEMMA CarriedAppend ==
  ASSUME IInv, NEW c \in Conns, NEW m \in Messages, wire' = Sent(c, m), seen' = seen
  PROVE  /\ \A d \in Conns : d # c => Carried(d)' = Carried(d)
         /\ viewer[c] = "gone" => Carried(c)' = Carried(c)
         /\ viewer[c] # "gone" => Carried(c)' = Carried(c) \cup {m}
<1>1. wire \in [Conns -> Seq(Messages)] /\ wire[c] \in Seq(Messages)
  BY DEF IInv, TypeOK
<1>2. CASE viewer[c] = "gone"
  BY <1>2 DEF Sent, Carried
<1>3. CASE viewer[c] # "gone"
  <2>1. wire'[c] = Append(wire[c], m) /\ \A d \in Conns : d # c => wire'[d] = wire[d]
    BY <1>1, <1>3 DEF Sent
  <2>2. /\ DOMAIN wire[c] = 1 .. Len(wire[c]) /\ Len(wire[c]) \in Nat
        /\ DOMAIN wire'[c] = 1 .. Len(wire[c]) + 1
        /\ wire'[c][Len(wire[c]) + 1] = m
        /\ \A i \in DOMAIN wire[c] : wire'[c][i] = wire[c][i]
    BY <1>1, <2>1, Appended
  <2>3. DOMAIN wire'[c] = DOMAIN wire[c] \cup {Len(wire[c]) + 1}
    BY <2>2
  <2>4. {wire'[c][i] : i \in DOMAIN wire'[c]} = {wire[c][i] : i \in DOMAIN wire[c]} \cup {m}
    BY <2>2, <2>3
  <2>5. Carried(c)' = Carried(c) \cup {m}
    BY <2>4 DEF Carried
  <2>6. \A d \in Conns : d # c => Carried(d)' = Carried(d)
    BY <2>1 DEF Carried
  <2>7. QED
    BY <1>3, <2>5, <2>6
<1>4. QED
  BY <1>2, <1>3

LEMMA CarriedRead ==
  ASSUME IInv, NEW c \in Conns, Read(c)
  PROVE  \A d \in Conns : Carried(d)' = Carried(d)
<1>1. /\ wire \in [Conns -> Seq(Messages)] /\ seen \in [Conns -> Seq(Messages)]
      /\ wire[c] # << >>
      /\ seen' = [seen EXCEPT ![c] = Append(@, Head(wire[c]))]
      /\ wire' = [wire EXCEPT ![c] = Tail(@)]
  BY DEF Read, IInv, TypeOK
<1> DEFINE s == seen[c]
           w == wire[c]
<1>2. s \in Seq(Messages) /\ w \in Seq(Messages) /\ w # << >>
      /\ seen'[c] = Append(s, Head(w)) /\ wire'[c] = Tail(w)
      /\ \A d \in Conns : d # c => seen'[d] = seen[d] /\ wire'[d] = wire[d]
  BY <1>1
<1> HIDE DEF s, w
<1>3. /\ Len(w) \in Nat /\ Len(w) >= 1 /\ DOMAIN w = 1 .. Len(w) /\ Head(w) = w[1]
      /\ Head(w) \in Messages
      /\ DOMAIN Tail(w) = 1 .. Len(w) - 1
      /\ \A i \in 1 .. Len(w) - 1 : Tail(w)[i] = w[i + 1]
  <2>1. /\ Len(w) \in Nat /\ Len(w) >= 1 /\ DOMAIN w = 1 .. Len(w) /\ Head(w) = w[1]
        /\ \A i \in 1 .. Len(w) : w[i] \in Messages
        /\ DOMAIN Tail(w) = 1 .. Len(w) - 1
        /\ \A i \in 1 .. Len(w) - 1 : Tail(w)[i] = w[i + 1]
    BY <1>2, HeadAndTail
  <2>2. 1 \in 1 .. Len(w)
    BY <2>1
  <2>3. QED
    BY <2>1, <2>2
<1>4. {w[i] : i \in DOMAIN w} = {w[1]} \cup {Tail(w)[i] : i \in DOMAIN Tail(w)}
  <2>1. ASSUME NEW i \in DOMAIN w
        PROVE  w[i] \in {w[1]} \cup {Tail(w)[j] : j \in DOMAIN Tail(w)}
    <3>1. CASE i = 1
      BY <3>1
    <3>2. CASE i # 1
      <4>1. i - 1 \in 1 .. Len(w) - 1 /\ (i - 1) + 1 = i
        BY <1>3, <3>2
      <4>2. Tail(w)[i - 1] = w[i]
        BY <1>3, <4>1
      <4>3. QED
        BY <1>3, <4>1, <4>2
    <3>3. QED
      BY <3>1, <3>2
  <2>2. ASSUME NEW i \in DOMAIN Tail(w) PROVE Tail(w)[i] \in {w[j] : j \in DOMAIN w}
    <3>1. i \in 1 .. Len(w) - 1 /\ i + 1 \in DOMAIN w
      BY <1>3
    <3>2. QED
      BY <1>3, <3>1
  <2>3. 1 \in DOMAIN w
    BY <1>3
  <2>4. QED
    BY <2>1, <2>2, <2>3
<1>5. {Append(s, w[1])[i] : i \in DOMAIN Append(s, w[1])} = {s[i] : i \in DOMAIN s} \cup {w[1]}
  <2>1. w[1] \in Messages
    BY <1>3
  <2>2. /\ DOMAIN s = 1 .. Len(s) /\ Len(s) \in Nat
        /\ DOMAIN Append(s, w[1]) = 1 .. Len(s) + 1
        /\ Append(s, w[1])[Len(s) + 1] = w[1]
        /\ \A i \in DOMAIN s : Append(s, w[1])[i] = s[i]
    BY <1>2, <2>1, Appended
  <2>3. DOMAIN Append(s, w[1]) = DOMAIN s \cup {Len(s) + 1}
    BY <2>2
  <2>4. QED
    BY <2>2, <2>3
<1>6. Carried(c)' = Carried(c)
  <2>1. Carried(c) = {s[i] : i \in DOMAIN s} \cup {w[i] : i \in DOMAIN w}
    BY DEF Carried, s, w
  <2>2. Carried(c)' = {Append(s, w[1])[i] : i \in DOMAIN Append(s, w[1])}
                       \cup {Tail(w)[i] : i \in DOMAIN Tail(w)}
    BY <1>2, <1>3 DEF Carried
  <2>3. QED
    BY ONLY <1>4, <1>5, <2>1, <2>2
<1>7. \A d \in Conns : d # c => Carried(d)' = Carried(d)
  BY <1>2 DEF Carried
<1>8. QED
  BY <1>6, <1>7

LEMMA InitLoss == Init => LossInv
<1> SUFFICES ASSUME Init PROVE LossInv
  OBVIOUS
<1>1. \A c \in Conns : Carried(c) = {}
  <2>1. DOMAIN << >> = {}
    OBVIOUS
  <2>2. \A c \in Conns : seen[c] = << >> /\ wire[c] = << >>
    BY DEF Init
  <2>3. QED
    BY <2>1, <2>2 DEF Carried
<1>2. Taken = 0
  <2>1. sent = 0 /\ Len(channel) = 0
    BY DEF Init
  <2>2. QED
    BY <2>1 DEF Taken
<1>3. QED
  BY <1>1, <1>2 DEF LossInv

LEMMA LeaveLoss ==
  ASSUME IInv, LossInv, NEW c \in Conns, Leave(c)
  PROVE  LossInv'
<1>1. /\ viewer' = [viewer EXCEPT ![c] = "gone"] /\ wire' = [wire EXCEPT ![c] = << >>]
      /\ UNCHANGED <<sent, channel, current, backlog, conns, seen>>
      /\ viewer \in [Conns -> {"silent", "asking", "gone"}]
      /\ wire \in [Conns -> Seq(Messages)]
  BY DEF Leave, gameVars, serverVars, IInv, TypeOK
<1>2. /\ viewer'[c] = "gone" /\ wire'[c] = << >> /\ DOMAIN << >> = {}
      /\ \A d \in Conns : d # c => viewer'[d] = viewer[d] /\ wire'[d] = wire[d]
  BY <1>1
<1>3. Carried(c)' \subseteq Carried(c) /\ \A d \in Conns : d # c => Carried(d)' = Carried(d)
  BY <1>1, <1>2 DEF Carried
<1>4. Taken' = Taken /\ Taken \in Nat
  BY <1>1, LogTypes DEF Taken
<1>5. \A d \in Conns : Served(d) => Served(d)'
  BY <1>1 DEF Served
<1>6. \A d \in Conns : viewer[d] = "gone" => viewer'[d] = "gone"
  BY <1>2
<1>7. \A d \in Conns : /\ Carried(d) \subseteq Carried(d)' \/ viewer'[d] = "gone"
                       /\ Carried(d)' \subseteq Carried(d)
  BY <1>2, <1>3
<1>8. QED
  BY <1>4, <1>5, <1>6, <1>7, NoFrameTaken

\* A frame is taken for the current connection, which is the last to have been
\* served, and it is the newest so far.
LEMMA StreamLoss ==
  ASSUME GapInv, LossInv, Stream
  PROVE  LossInv'
<1>1. /\ thread = "stream" /\ channel # << >> /\ channel' = Tail(channel)
      /\ current \in Conns /\ IInv
      /\ UNCHANGED <<sent, backlog, conns, viewer, seen>>
  <2>1. /\ thread = "stream" /\ channel # << >> /\ channel' = Tail(channel)
        /\ UNCHANGED <<sent, backlog, conns, viewer, seen>>
    BY DEF Stream, gameVars, viewerVars
  <2>2. QED
    BY <2>1 DEF GapInv, IInv, TypeOK
<1>c. PICK cur \in Conns : cur = current
  BY <1>1
<1> DEFINE f == Head(channel)
<1>2. f = Taken + 1 /\ f \in Messages /\ Taken' = Taken + 1 /\ Taken \in Nat
  <2>1. channel \in Seq(Messages) /\ sent \in Nat /\ ChannelIsLatest
    BY <1>1, LiveAssumption DEF IInv, TypeOK
  <2>2. /\ 1 \in DOMAIN channel /\ Head(channel) = channel[1]
        /\ Len(channel) \in Nat /\ Len(Tail(channel)) = Len(channel) - 1
        /\ Head(channel) \in Messages
    BY <1>1, <2>1
  <2>3. channel[1] = Taken + 1 /\ Taken \in Nat
    BY <2>1, <2>2 DEF ChannelIsLatest, Taken
  <2>4. Taken' = Taken + 1
    BY <1>1, <2>1, <2>2 DEF Taken
  <2>5. QED
    BY <2>2, <2>3, <2>4
<1> HIDE DEF f
<1>3. \/ /\ viewer[cur] # "gone" /\ current' = current /\ wire' = Sent(cur, f)
      \/ viewer[cur] = "gone" /\ current' = current /\ wire' = wire
      \/ viewer[cur] = "gone" /\ current' = None /\ wire' = wire
  BY <1>c DEF Stream, serverVars, f
<1>4. /\ \A d \in Conns : d # cur => Carried(d)' = Carried(d)
      /\ viewer[cur] = "gone" => Carried(cur)' = Carried(cur)
      /\ viewer[cur] # "gone" => Carried(cur)' = Carried(cur) \cup {f}
  <2>1. CASE wire' = Sent(cur, f)
    BY <1>1, <1>2, <2>1, CarriedAppend
  <2>2. CASE wire' = wire /\ viewer[cur] = "gone"
    BY <1>1, <2>2 DEF Carried
  <2>3. QED
    BY <1>3, <2>1, <2>2
<1>5. \A d \in Conns : Served(d) => Served(d)'
  BY <1>1, <1>3 DEF Served
<1>6. Served(cur) /\ \A d \in Conns : Served(d) => d <= cur
  <2>1. Served(cur)
    BY <1>1, <1>c, CurrentIsServed
  <2>2. current # None
    BY <1>1, LiveAssumption DEF Conns, None
  <2>3. QED
    BY <1>c, <2>1, <2>2 DEF Served
<1>7. /\ cur \in Nat /\ \A d \in Conns : d \in Nat
      /\ \A d \in Conns : \A m \in Carried(d) : m \in Nat /\ m <= Taken
  BY <1>1, <1>2, LiveAssumption DEF LossInv, Conns
<1>8. \A d \in Conns : Carried(d)' \subseteq 0 .. Taken'
  BY <1>2, <1>4, <1>7
<1>9. \A d \in Conns : Carried(d)' # {} => Served(d)'
  <2>1. \A d \in Conns : d # cur => (Carried(d)' # {} => Served(d))
    BY <1>4 DEF LossInv
  <2>2. QED
    BY <1>5, <1>6, <2>1
<1>10. ASSUME NEW g \in 1 .. Taken' PROVE \E c \in Conns : TakenFor(g, c)'
  <2>1. CASE g = f
    <3>1. Served(cur)' /\ (viewer'[cur] = "gone" \/ g \in Carried(cur)')
      BY <1>1, <1>4, <1>5, <1>6, <2>1
    <3>2. ASSUME NEW d \in Conns, NEW m \in Carried(d)'
          PROVE  (d < cur => m < g) /\ (d > cur /\ m # Hello => m > g)
      <4>1. CASE d = cur
        BY <1>7, <4>1
      <4>2. CASE d # cur
        <5>1. m \in Carried(d) /\ Served(d)
          BY <1>4, <3>2, <4>2 DEF LossInv
        <5>2. d <= cur /\ m <= Taken /\ m \in Nat /\ d \in Nat
          BY <1>6, <1>7, <5>1
        <5>3. QED
          BY <1>2, <1>7, <2>1, <4>2, <5>2
      <4>3. QED
        BY <4>1, <4>2
    <3>3. TakenFor(g, cur)'
      BY <3>1, <3>2 DEF TakenFor
    <3>4. QED
      BY <3>3
  <2>2. CASE g # f
    <3>1. g \in 1 .. Taken
      BY <1>2, <2>2
    <3>2. PICK c \in Conns : TakenFor(g, c)
      BY <3>1 DEF LossInv
    <3>3. Served(c)' /\ c <= cur
      BY <1>5, <1>6, <3>2 DEF TakenFor
    <3>4. viewer'[c] = "gone" \/ g \in Carried(c)'
      BY <1>1, <1>4, <3>2 DEF TakenFor
    <3>5. ASSUME NEW d \in Conns, NEW m \in Carried(d)'
          PROVE  (d < c => m < g) /\ (d > c /\ m # Hello => m > g)
      <4>1. CASE m \in Carried(d)
        BY <3>2, <4>1 DEF TakenFor
      <4>2. CASE d = cur /\ m = f
        BY <1>2, <1>7, <3>1, <3>3, <4>2
      <4>3. QED
        BY <1>4, <3>5, <4>1, <4>2
    <3>6. QED
      BY <3>3, <3>4, <3>5 DEF TakenFor
  <2>3. QED
    BY <2>1, <2>2
<1>11. QED
  BY <1>8, <1>9, <1>10 DEF LossInv

LEMMA StepLoss == GapInv /\ LossInv /\ [Next]_vars => LossInv'
<1> SUFFICES ASSUME GapInv, LossInv, [Next]_vars PROVE LossInv'
  OBVIOUS
<1>1. IInv /\ Taken \in Nat
  BY LogTypes DEF GapInv
<1>2. /\ backlog \in Seq(Conns) /\ conns \in Nat /\ current \in Nat
      /\ DOMAIN backlog = 1 .. Len(backlog) /\ Len(backlog) \in Nat
      /\ channel \in Seq(Messages) /\ sent \in Nat
      /\ \A c \in Conns : c \in Nat /\ c # None
  <2>1. backlog \in Seq(Conns) /\ conns \in Nat /\ current \in Nat
        /\ channel \in Seq(Messages) /\ sent \in Nat
    BY <1>1, LiveAssumption DEF IInv, TypeOK, Conns, None
  <2>2. \A c \in Conns : c \in Nat /\ c # None
    BY LiveAssumption DEF Conns, None
  <2>3. DOMAIN backlog = 1 .. Len(backlog) /\ Len(backlog) \in Nat
    BY <2>1
  <2>4. QED
    BY <2>1, <2>2, <2>3
\* Steps that touch no connection's messages.
<1>3. ASSUME UNCHANGED <<seen, wire>>, Taken' = Taken,
             \A c \in Conns : Served(c) => Served(c)',
             \A c \in Conns : viewer[c] = "gone" => viewer'[c] = "gone"
      PROVE  LossInv'
  <2>1. \A c \in Conns : Carried(c)' = Carried(c)
    BY <1>3 DEF Carried
  <2>2. QED
    BY <1>1, <1>3, <2>1, NoFrameTaken
<1>4. CASE SendFrame
  <2>1. /\ sent' = sent + 1 /\ channel' = Append(channel, sent + 1)
        /\ UNCHANGED <<current, backlog, conns, viewer, seen, wire>>
    BY <1>4 DEF SendFrame, serverVars, viewerVars
  <2>2. Len(channel') = Len(channel) + 1 /\ Len(channel) \in Nat
    BY <1>2, <2>1
  <2>3. Taken' = Taken
    BY <1>2, <2>1, <2>2 DEF Taken
  <2>4. QED
    BY <1>3, <2>1, <2>3 DEF Served
<1>5. CASE DropServer
  BY <1>3, <1>5 DEF DropServer, serverVars, viewerVars, Served, Taken
<1>6. CASE Accept
  <2>1. /\ thread = "accept" /\ backlog # << >>
        /\ current' = Head(backlog) /\ backlog' = Tail(backlog)
        /\ UNCHANGED <<sent, channel, conns, viewer, seen, wire>>
    BY <1>6 DEF Accept, gameVars, viewerVars
  <2>2. /\ Len(backlog) >= 1 /\ Head(backlog) = backlog[1]
        /\ \A i \in 1 .. Len(backlog) : backlog[i] \in Conns
        /\ DOMAIN Tail(backlog) = 1 .. Len(backlog) - 1
        /\ \A i \in 1 .. Len(backlog) - 1 : Tail(backlog)[i] = backlog[i + 1]
    BY <1>2, <2>1, HeadAndTail
  <2>3. ASSUME NEW c \in Conns, Served(c) PROVE Served(c)'
    <3>1. 1 \in DOMAIN backlog /\ backlog[1] \in Conns
      BY <1>2, <2>2
    <3>2. c < backlog[1] /\ backlog[1] \in Nat /\ c \in Nat
      BY <1>2, <2>3, <3>1 DEF Served
    <3>3. c <= current'
      BY <2>1, <2>2, <3>2
    <3>4. \A i \in DOMAIN backlog' : c < backlog'[i]
      <4>1. \A i \in DOMAIN backlog' : i + 1 \in DOMAIN backlog /\ backlog'[i] = backlog[i + 1]
        BY <1>2, <2>1, <2>2
      <4>2. QED
        BY <2>3, <4>1 DEF Served
    <3>5. QED
      BY <2>1, <2>3, <3>3, <3>4 DEF Served
  <2>4. QED
    BY <1>3, <2>1, <2>3 DEF Taken
<1>7. CASE Greet
  <2>1. /\ thread = "greet" /\ UNCHANGED <<sent, channel, backlog, conns, viewer, seen>>
    BY <1>7 DEF Greet, gameVars, viewerVars
  <2>2. current \in Conns
    BY <1>1, <2>1 DEF IInv, TypeOK
  <2>3. CASE current' = None /\ UNCHANGED wire
    BY <1>3, <2>1, <2>3 DEF Served, Taken
  <2>4. CASE current' = current /\ wire' = Sent(current, Hello)
    <3>1. Hello \in Messages
      BY LiveAssumption DEF Hello, Messages
    <3>2. \A c \in Conns : /\ Carried(c) \subseteq Carried(c)'
                           /\ c # current => Carried(c)' = Carried(c)
                           /\ Carried(c)' \subseteq Carried(c) \cup {Hello}
      BY <1>1, <2>1, <2>2, <2>4, <3>1, CarriedAppend
    <3>3. Served(current)
      BY <2>2, CurrentIsServed
    <3>4. Taken' = Taken /\ \A c \in Conns : Served(c) => Served(c)'
      BY <2>1, <2>4 DEF Taken, Served
    <3>5. \A c \in Conns : \/ Carried(c)' \subseteq Carried(c)
                           \/ Served(c) /\ Carried(c)' \subseteq Carried(c) \cup {Hello}
      BY <3>2, <3>3
    <3>6. QED
      BY <1>1, <2>1, <3>2, <3>4, <3>5, NoFrameTaken
  <2>5. QED
    BY <1>7, <2>3, <2>4 DEF Greet
<1>8. CASE Stream
  BY <1>8, StreamLoss
<1>9. CASE Exit
  <2>1. /\ current' = None /\ backlog' = << >>
        /\ UNCHANGED <<sent, channel, conns, viewer, seen, wire>>
    BY <1>9 DEF Exit, gameVars, viewerVars
  <2>2. DOMAIN backlog' = {}
    BY <2>1
  <2>3. QED
    BY <1>3, <2>1, <2>2 DEF Served, Taken
<1>10. CASE Connect
  <2>1. /\ conns' = conns + 1 /\ backlog' = Append(backlog, conns + 1)
        /\ UNCHANGED <<sent, channel, current, viewer, seen, wire>>
    BY <1>10 DEF Connect, gameVars, serverVars
  <2>2. conns + 1 \in Conns
    BY <1>2, <1>10, LiveAssumption DEF Connect, Conns
  <2>3. \A i \in DOMAIN backlog' : \/ i \in DOMAIN backlog /\ backlog'[i] = backlog[i]
                                   \/ backlog'[i] = conns + 1
    <3>1. /\ DOMAIN backlog' = 1 .. Len(backlog) + 1
          /\ backlog'[Len(backlog) + 1] = conns + 1
          /\ \A i \in 1 .. Len(backlog) : backlog'[i] = backlog[i]
      <4> HIDE DEF Conns
      <4>1. QED
        BY <1>2, <2>1, <2>2
    <3>2. \A i \in DOMAIN backlog' : i \in 1 .. Len(backlog) \/ i = Len(backlog) + 1
      BY <1>2, <3>1
    <3>3. QED
      BY <1>2, <3>1, <3>2
  <2>4. ASSUME NEW c \in Conns, Served(c) PROVE Served(c)'
    <3>1. c <= conns /\ c \in Nat
      BY <1>2, <2>4 DEF Served
    <3>2. c <= conns + 1 /\ c < conns + 1
      BY <1>2, <3>1
    <3>3. \A i \in DOMAIN backlog' : c < backlog'[i]
      BY <2>3, <2>4, <3>2 DEF Served
    <3>4. QED
      BY <2>1, <2>4, <3>2, <3>3 DEF Served
  <2>5. QED
    BY <1>3, <2>1, <2>4 DEF Taken
<1>11. ASSUME NEW c \in Conns, Ask(c) PROVE LossInv'
  <2>1. /\ viewer[c] = "silent" /\ viewer' = [viewer EXCEPT ![c] = "asking"]
        /\ UNCHANGED <<sent, channel, current, backlog, conns, seen, wire>>
    BY <1>11 DEF Ask, gameVars, serverVars
  <2>2. \A d \in Conns : viewer[d] = "gone" => viewer'[d] = "gone"
    BY <1>1, <2>1 DEF IInv, TypeOK
  <2>3. QED
    BY <1>3, <2>1, <2>2 DEF Served, Taken
<1>12. ASSUME NEW c \in Conns, Read(c) PROVE LossInv'
  <2>1. UNCHANGED <<sent, channel, current, backlog, conns, viewer>>
    BY <1>12 DEF Read, gameVars, serverVars
  <2>2. \A d \in Conns : Carried(d)' = Carried(d)
    BY <1>1, <1>12, CarriedRead
  <2>3. Taken' = Taken /\ \A d \in Conns : Served(d) => Served(d)'
    BY <2>1 DEF Taken, Served
  <2>4. QED
    BY <1>1, <2>1, <2>2, <2>3, NoFrameTaken
<1>13. ASSUME NEW c \in Conns, Leave(c) PROVE LossInv'
  BY <1>1, <1>13, LeaveLoss
<1>14. CASE UNCHANGED vars
  BY <1>3, <1>14 DEF vars, Served, Taken
<1>15. QED
  BY <1>4, <1>5, <1>6, <1>7, <1>8, <1>9, <1>10, <1>11, <1>12, <1>13, <1>14 DEF Next

\* A frame sent while a viewer was served goes missing only for a connection
\* whose viewer had left, between what the viewers before it read and what those
\* after it read: the thread's loop loses nothing of its own.
THEOREM LostOnlyOnLeavingCorrect == Spec => []LostOnlyOnLeaving
<1>1. GapInv /\ LossInv => LostOnlyOnLeaving
  <2>0. GapInv => watched \subseteq 1 .. sent
    BY DEF GapInv, IInv, TypeOK
  <2> SUFFICES ASSUME GapInv, LossInv, NEW f \in 1 .. sent, Lost(f)
               PROVE  \E c \in Conns :
                        /\ viewer[c] = "gone"
                        /\ \A i \in DOMAIN backlog : backlog[i] # c
                        /\ \A d \in Conns : \A i \in DOMAIN seen[d] :
                             /\ d < c => seen[d][i] < f
                             /\ d > c /\ seen[d][i] # Hello => seen[d][i] > f
    BY <2>0 DEF LostOnlyOnLeaving
  <2>1. /\ channel \in Seq(Messages) /\ sent \in Nat /\ ChannelIsLatest
        /\ backlog \in Seq(Conns)
    BY LiveAssumption DEF GapInv, IInv, TypeOK
  <2>2. f \in 1 .. Taken
    <3> SUFFICES ASSUME f > Taken PROVE FALSE
      BY <2>1 DEF Taken
    <3>1. Len(channel) \in Nat /\ DOMAIN channel = 1 .. Len(channel)
      BY <2>1
    <3>2. f - Taken \in DOMAIN channel
      BY <2>1, <3>1 DEF Taken
    <3>3. channel[f - Taken] = Taken + (f - Taken)
      BY <2>1, <3>2 DEF ChannelIsLatest
    <3>4. channel[f - Taken] = f
      BY <2>1, <3>1, <3>3 DEF Taken
    <3>5. QED
      BY <3>2, <3>4 DEF Lost
  <2>3. PICK c \in Conns : TakenFor(f, c)
    BY <2>2 DEF LossInv
  <2>4. f \notin Carried(c)
    BY DEF Lost, Carried
  <2>5. viewer[c] = "gone"
    BY <2>3, <2>4 DEF TakenFor
  <2>6. \A i \in DOMAIN backlog : backlog[i] # c
    <3>1. \A i \in DOMAIN backlog : c < backlog[i]
      BY <2>3 DEF TakenFor, Served
    <3>2. c \in Nat
      BY LiveAssumption DEF Conns
    <3>3. QED
      BY <3>1, <3>2
  <2>7. \A d \in Conns : \A i \in DOMAIN seen[d] : seen[d][i] \in Carried(d)
    BY DEF Carried
  <2>8. QED
    BY <2>3, <2>5, <2>6, <2>7 DEF TakenFor
<1>2. QED
  BY <1>1, InitGap, StepGap, InitLoss, StepLoss, PTL DEF Spec
============================================================================
