------------------------------ MODULE LiveMode ------------------------------
(***************************************************************************)
(* Live mode: a game that sends frames, the background thread of its       *)
(* LiveServer that accepts one viewer at a time and streams to it, and     *)
(* viewers that connect, read and leave when they like.                    *)
(*                                                                         *)
(* A frame is its number in the order of sending.  Connections are         *)
(* numbered in the order in which viewers connect.  A viewer that has left *)
(* is noticed by the thread only when a send to it fails, and the          *)
(* operating system may accept sends long after it left.                   *)
(***************************************************************************)
EXTENDS Naturals, Sequences

CONSTANTS
  MaxFrames,   \* bound: frames the game sends
  MaxConns,    \* bound: connections viewers open
  Window       \* messages a connection holds before a send blocks

ASSUME LiveAssumption ==
  /\ MaxFrames \in Nat
  /\ MaxConns \in Nat
  /\ Window \in Nat \ {0}

VARIABLES
  sent,        \* frames the game has sent
  handle,      \* the game's LiveServer: "held" or "dropped"
  channel,     \* the mpsc channel
  thread,      \* the thread is in "accept", "greet", "stream", or "exited"
  current,     \* the connection it has accepted, None if none
  backlog,     \* connections the listener holds for accept()
  conns,       \* connections opened so far
  viewer,      \* each viewer: "silent", "asking" (upgrade requested), "gone"
  wire,        \* messages sent on a connection and not read yet
  seen,        \* messages each viewer has read
  shown,       \* history: the last frame any viewer has read
  watched      \* history: the frames sent while a viewer was served

vars == <<sent, handle, channel, thread, current, backlog, conns, viewer, wire,
          seen, shown, watched>>

gameVars == <<sent, handle, watched>>
serverVars == <<thread, current>>
viewerVars == <<conns, viewer, seen, shown>>

Hello == 0
None == 0
Conns == 1 .. MaxConns

Init ==
  /\ sent = 0 /\ handle = "held" /\ channel = << >>
  /\ thread = "accept" /\ current = None /\ backlog = << >>
  /\ conns = 0
  /\ viewer = [c \in Conns |-> "silent"]
  /\ wire = [c \in Conns |-> << >>]
  /\ seen = [c \in Conns |-> << >>]
  /\ shown = 0 /\ watched = {}

----------------------------------------------------------------------------
(* The game *)

\* A viewer has been greeted and has not left.
Serving == thread = "stream" /\ viewer[current] # "gone"

\* LiveServer::send_frame: an unbounded queue, whether or not anyone watches.
SendFrame ==
  /\ handle = "held" /\ sent < MaxFrames
  /\ sent' = sent + 1
  /\ channel' = Append(channel, sent + 1)
  /\ watched' = IF Serving THEN watched \cup {sent + 1} ELSE watched
  /\ UNCHANGED <<handle, serverVars, backlog, viewerVars, wire>>

DropServer ==
  /\ handle = "held"
  /\ handle' = "dropped"
  /\ UNCHANGED <<sent, watched, channel, serverVars, backlog, viewerVars, wire>>

----------------------------------------------------------------------------
(* The thread *)

\* What is sent to a viewer that has left is gone.
Sent(c, message) ==
  IF viewer[c] = "gone" THEN wire
  ELSE [wire EXCEPT ![c] = Append(@, message)]

Accept ==
  /\ thread = "accept" /\ backlog # << >>
  /\ current' = Head(backlog)
  /\ backlog' = Tail(backlog)
  /\ thread' = "greet"
  /\ UNCHANGED <<gameVars, channel, viewerVars, wire>>

\* Mutant: a failed handshake leaves the connection in place.
GreetKeepsCurrent ==
  /\ thread = "greet" /\ viewer[current] \in {"asking", "gone"}
  /\ \/ thread' = "stream" /\ wire' = Sent(current, Hello)
     \/ viewer[current] = "gone" /\ thread' = "accept" /\ UNCHANGED wire
  /\ UNCHANGED <<gameVars, channel, current, backlog, viewerVars>>

\* Mutant: a handshake with a viewer that has left is waited for all the same.
GreetWaitsForLeft ==
  /\ thread = "greet" /\ viewer[current] = "asking"
  /\ thread' = "stream" /\ wire' = Sent(current, Hello)
  /\ UNCHANGED <<gameVars, channel, current, backlog, viewerVars>>

\* tungstenite::accept waits for the viewer's upgrade request; then hello.
\* Either may fail, but only on a viewer that has left.
Greet ==
  /\ thread = "greet" /\ viewer[current] \in {"asking", "gone"}
  /\ \/ /\ thread' = "stream" /\ current' = current
        /\ wire' = Sent(current, Hello)
     \/ /\ viewer[current] = "gone"
        /\ thread' = "accept" /\ current' = None
        /\ UNCHANGED wire
  /\ UNCHANGED <<gameVars, channel, backlog, viewerVars>>

\* Mutants: the frame of a failed send is queued again; a send that would
\* block drops its frame.
StreamRequeues ==
  /\ thread = "stream" /\ channel # << >>
  /\ \/ /\ viewer[current] # "gone" /\ Len(wire[current]) < Window
        /\ channel' = Tail(channel)
        /\ wire' = Sent(current, Head(channel))
        /\ UNCHANGED serverVars
     \/ /\ viewer[current] = "gone"
        /\ channel' = Append(Tail(channel), Head(channel))
        /\ thread' = "accept" /\ current' = None
        /\ UNCHANGED wire
  /\ UNCHANGED <<gameVars, backlog, viewerVars>>
StreamDrops ==
  /\ thread = "stream" /\ channel # << >>
  /\ channel' = Tail(channel)
  /\ \/ /\ viewer[current] # "gone"
        /\ wire' = IF Len(wire[current]) < Window
                   THEN Sent(current, Head(channel)) ELSE wire
        /\ UNCHANGED serverVars
     \/ /\ viewer[current] = "gone"
        /\ thread' = "accept" /\ current' = None
        /\ UNCHANGED wire
  /\ UNCHANGED <<gameVars, backlog, viewerVars>>

\* rx.recv and send_frame: a send blocks while the connection is full; one
\* that fails loses the frame it had taken and ends the connection.
Stream ==
  /\ thread = "stream" /\ channel # << >>
  /\ channel' = Tail(channel)
  /\ \/ /\ viewer[current] # "gone" /\ Len(wire[current]) < Window
        /\ wire' = Sent(current, Head(channel))
        /\ UNCHANGED serverVars
     \/ /\ viewer[current] = "gone"
        /\ UNCHANGED <<serverVars, wire>>
     \/ /\ viewer[current] = "gone"
        /\ thread' = "accept" /\ current' = None
        /\ UNCHANGED wire
  /\ UNCHANGED <<gameVars, backlog, viewerVars>>

\* Mutants: the thread ends with frames still queued; it goes back to accept.
ExitAtOnce ==
  /\ thread = "stream" /\ handle = "dropped"
  /\ thread' = "exited" /\ current' = None
  /\ backlog' = << >>
  /\ UNCHANGED <<gameVars, channel, viewerVars, wire>>
ExitToAccept ==
  /\ thread = "stream" /\ channel = << >> /\ handle = "dropped"
  /\ thread' = "accept" /\ current' = None
  /\ UNCHANGED <<gameVars, channel, backlog, viewerVars, wire>>

\* rx.recv fails once the channel is empty and its sender dropped: the thread
\* returns, and the listener closes with the connections it still holds.
Exit ==
  /\ thread = "stream" /\ channel = << >> /\ handle = "dropped"
  /\ thread' = "exited" /\ current' = None
  /\ backlog' = << >>
  /\ UNCHANGED <<gameVars, channel, viewerVars, wire>>

----------------------------------------------------------------------------
(* Viewers *)

Connect ==
  /\ conns < MaxConns /\ thread # "exited"
  /\ conns' = conns + 1
  /\ backlog' = Append(backlog, conns + 1)
  /\ UNCHANGED <<gameVars, channel, serverVars, viewer, wire, seen, shown>>

\* The client half of the handshake.  A connection that never makes it (a
\* port scan, a viewer that hangs) keeps the thread waiting.
Ask(c) ==
  /\ c <= conns /\ viewer[c] = "silent"
  /\ viewer' = [viewer EXCEPT ![c] = "asking"]
  /\ UNCHANGED <<gameVars, channel, serverVars, backlog, conns, wire, seen, shown>>

Read(c) ==
  /\ viewer[c] = "asking" /\ wire[c] # << >>
  /\ seen' = [seen EXCEPT ![c] = Append(@, Head(wire[c]))]
  /\ wire' = [wire EXCEPT ![c] = Tail(@)]
  /\ shown' = IF Head(wire[c]) = Hello THEN shown ELSE Head(wire[c])
  /\ UNCHANGED <<gameVars, channel, serverVars, backlog, conns, viewer>>

Leave(c) ==
  /\ c <= conns /\ viewer[c] # "gone"
  /\ viewer' = [viewer EXCEPT ![c] = "gone"]
  /\ wire' = [wire EXCEPT ![c] = << >>]
  /\ UNCHANGED <<gameVars, channel, serverVars, backlog, conns, seen, shown>>

Next ==
  \/ SendFrame \/ DropServer
  \/ Accept \/ Greet \/ Stream \/ Exit
  \/ Connect
  \/ \E c \in Conns : Ask(c) \/ Read(c) \/ Leave(c)

Spec == Init /\ [][Next]_vars

\* The thread runs whenever it is not blocked, and a viewer keeps reading.
\* Nobody has to connect, to ask, to leave or to send.
Fairness ==
  /\ WF_vars(Accept) /\ WF_vars(Greet) /\ WF_vars(Stream) /\ WF_vars(Exit)
  /\ \A c \in Conns : WF_vars(Read(c))

FairSpec == Spec /\ Fairness

----------------------------------------------------------------------------
(* Properties *)

Messages == 0 .. MaxFrames

\* Every variable keeps its type.
TypeOK ==
  /\ sent \in 0 .. MaxFrames /\ handle \in {"held", "dropped"}
  /\ channel \in Seq(Messages)
  /\ thread \in {"accept", "greet", "stream", "exited"}
  /\ current \in Conns \cup {None}
  /\ (current = None) <=> thread \in {"accept", "exited"}
  /\ backlog \in Seq(Conns)
  /\ conns \in 0 .. MaxConns
  /\ viewer \in [Conns -> {"silent", "asking", "gone"}]
  /\ wire \in [Conns -> Seq(Messages)]
  /\ seen \in [Conns -> Seq(Messages)]
  /\ shown \in 0 .. MaxFrames
  /\ watched \in SUBSET (1 .. sent)

\* Taken together, viewers receive frames in the order they were sent and no
\* frame twice, through reconnects, waiting viewers and viewers that left
\* without the thread knowing.
Promise == INSTANCE LiveStream
ImplementsStream == Promise!Spec

\* What one viewer reads is hello and then frames without a gap.
SeesWithoutGap ==
  \A c \in Conns : \A i \in DOMAIN seen[c] :
    /\ (i = 1) <=> (seen[c][i] = Hello)
    /\ i > 2 => seen[c][i] = seen[c][i - 1] + 1

\* A frame sent while a viewer is served goes missing only on a connection whose
\* viewer has left: every other one is queued, under way, or read.  The frames
\* of the viewers before it are the older ones, and of those after it the newer.
Lost(f) ==
  /\ \A i \in DOMAIN channel : channel[i] # f
  /\ \A c \in Conns : /\ \A i \in DOMAIN wire[c] : wire[c][i] # f
                      /\ \A i \in DOMAIN seen[c] : seen[c][i] # f
LostOnlyOnLeaving ==
  \A f \in watched : Lost(f) =>
    \E c \in Conns :
      /\ viewer[c] = "gone"
      /\ \A i \in DOMAIN backlog : backlog[i] # c
      /\ \A d \in Conns : \A i \in DOMAIN seen[d] :
           /\ d < c => seen[d][i] < f
           /\ d > c /\ seen[d][i] # Hello => seen[d][i] > f

\* A viewer that stays sees everything that was queued when its turn came,
\* and everything sent while it watches.
ViewerSeesAll ==
  \A c \in Conns, f \in 1 .. MaxFrames :
    (current = c /\ thread = "stream" /\ \E i \in DOMAIN channel : channel[i] = f)
      ~> (viewer[c] = "gone" \/ \E i \in DOMAIN seen[c] : seen[c][i] = f)

\* When the game drops its LiveServer while a viewer watches, the thread
\* hands over what is queued and ends, unless the viewer leaves first.
EndsWhileWatched ==
  \A c \in Conns :
    (handle = "dropped" /\ thread = "stream" /\ current = c)
      ~> (thread = "exited" \/ viewer[c] = "gone")

\* A viewer that waits for ever is kept waiting by one connection before it:
\* one whose upgrade request never comes, one still watched, or one whose viewer
\* left unnoticed while the game sends nothing.  Whatever else happened to the
\* connections before it, its turn would come.  (One viewer at a time,
\* live.rs:93.)
InBacklog(c) == viewer[c] = "asking" /\ \E i \in DOMAIN backlog : backlog[i] = c
Occupied ==
  /\ current # None
  /\ \/ viewer[current] # "gone"
     \/ thread = "stream" /\ channel = << >> /\ handle = "held"
WaitsBehindOne == \A c \in Conns : <>[]InBacklog(c) => <>[]Occupied

\* LiveServer's documentation: dropping it closes the channel, and the thread
\* then exits once its connection, if any, is gone.
EndsWhenDropped ==
  (handle = "dropped" /\ \A c \in 1 .. conns : viewer[c] = "gone")
    ~> (thread = "exited" \/ \E c \in 1 .. conns : viewer[c] # "gone")
============================================================================
